---- MODULE Spec2Model ----
(***************************************************************************)
(* Verification model of the ModuMentor agent: the tool registry           *)
(* (agents/tool_manager.py), the workflow executor                         *)
(* (agents/workflow_manager.py), the conversation memory                   *)
(* (utils/conversation_memory.py) and the orchestrator                     *)
(* (agents/intelligent_agent.py).                                          *)
(*                                                                         *)
(* Each component has its own variables and its own specification; a       *)
(* specification holds the variables of the other components at their      *)
(* idle value.                                                             *)
(***************************************************************************)
EXTENDS Integers, Sequences, FiniteSets, TLC

VARIABLES
    tools,      \* ToolManager.tools: the registered tool names, in registration order
    sel,        \* the last call made on the ToolManager and how it ended
    wf,         \* the last execute_workflow call: its step list and its WorkflowResult
    conversations,  \* ConversationMemory.conversations: user id -> Conversation
    max_messages_per_conversation,  \* ConversationMemory.max_messages_per_conversation
    max_conversations,  \* ConversationMemory.max_conversations
    now,        \* time.time(), in hours
    log,        \* history: per user id, every message appended since the conversation
                \* was last created
    reads,      \* the last read made on the ConversationMemory and what it returned
    pm,         \* IntelligentAgent.process_message: the call in flight, its position
                \* and its locals
    message_count,  \* IntelligentAgent.message_count
    last_reset,     \* IntelligentAgent.last_reset
    requests_made,  \* quota_monitor.usage_data["requests_made"]
    quota_exceeded, \* quota_monitor.usage_data["quota_exceeded"]
    calls,      \* history: the number of process_message calls started
    resets,     \* history: the number of _reset_state calls made
    parsed,     \* the last _parse_ai_workflow_response call: the lines of the
                \* response and the steps returned
    quota,      \* the quota monitor seen from outside: the UTC date, the date of
                \* the usage data, the reset_quota calls made and the guarded
                \* call in flight
    search,     \* WebSearchTool: its cache in dict order, the clock in seconds and
                \* the execute calls in flight
    notifier,    \* ProactiveNotificationManager: is_running, the _notification_loop
                \* tasks created, in order, and the last step made
    procs       \* the process_message calls running concurrently for one user id:
                \* the position of each and the list its cleanup has read

toolVars == <<tools, sel>>

memVars == <<conversations, max_messages_per_conversation, max_conversations, now, log,
            reads>>

agentVars == <<pm, message_count, last_reset, requests_made, quota_exceeded, calls, resets>>

\* The components that the tool registry, the workflow executor, the memory
\* and process_message leave alone.
extVars == <<parsed, quota, search, notifier, procs>>

vars == <<tools, sel, wf, conversations, max_messages_per_conversation,
          max_conversations, now, log, reads,
          pm, message_count, last_reset, requests_made, quota_exceeded, calls, resets,
          parsed,
          quota,
          search,
          notifier,
          procs>>

----------------------------------------------------------------------------
(* Helpers *)

Min(S) == CHOOSE x \in S : \A y \in S : x <= y

Range(s) == {s[i] : i \in 1..Len(s)}

\* No execute_workflow call has been made, or its result was taken.
WfIdle ==
    [called |-> FALSE, steps |-> <<>>, order |-> <<>>, warned |-> FALSE,
     appended |-> <<>>,
     visited |-> <<>>, invoked |-> <<>>, raised |-> <<>>, success |-> TRUE,
     steps_completed |-> 0,
     total_steps |-> 0, results |-> {},
     final_output |-> [kind |-> "none", n |-> 0, m |-> 0, k |-> 0], errors |-> <<>>]

\* Optional[str] user_id: no user id was given.
NoUser == "None"

\* Optional[BaseTool]: the null selection.
NoTool == "None"

\* No process_message call is in flight.
PmIdle ==
    [pc |-> "idle", user_message |-> <<>>, user_id |-> NoUser,
     cleaned_message |-> <<>>, branch |-> "none", tool |-> NoTool,
     original_tool |-> NoTool, search_query |-> <<>>, search_results |-> <<>>,
     workflow_steps |-> <<>>, adapter_raised |-> FALSE, empty |-> FALSE, echoed |-> FALSE,
     retries |-> 0,
     accepted |-> FALSE, caught |-> FALSE, raised |-> FALSE,
     ret |-> <<>>, trace |-> <<>>, added |-> <<>>]

\* The orchestrator is not running.
\* _parse_ai_workflow_response has not been called.
ParsedIdle == [called |-> FALSE, lines |-> <<>>, steps |-> <<>>]

\* The QuotaMonitor of a process that has just started: the usage data carry
\* today's date and no guarded call has been made.
QuotaIdle == [date |-> 0, stored_date |-> 0, resets |-> 0, guarded |-> "none"]

\* A WebSearchTool that has just been built: the cache is empty and no call
\* is in flight.
SearchIdle ==
    [cache |-> <<>>, time |-> 0, inserts |-> 0, started |-> 0,
     task |-> [t \in {1, 2} |-> [pc |-> "idle", key |-> 0, source |-> "none"]]]

\* A ProactiveNotificationManager that has just been built: the service is
\* not running and no loop task exists.
NotifierIdle ==
    [is_running |-> FALSE, loops |-> <<>>, last |-> [op |-> "none", loop |-> 0]]

\* No process_message call is running beside the one of pm.
ProcsIdle == [t \in {1, 2} |-> [pc |-> "idle", local |-> <<>>]]

IdleExt ==
    /\ parsed = ParsedIdle
    /\ quota = QuotaIdle
    /\ search = SearchIdle
    /\ notifier = NotifierIdle
    /\ procs = ProcsIdle

IdleAgent ==
    /\ pm = PmIdle
    /\ message_count = 0
    /\ last_reset = 0
    /\ requests_made = 0
    /\ quota_exceeded = FALSE
    /\ calls = 0
    /\ resets = 0

----------------------------------------------------------------------------
(* Conversation memory: utils/conversation_memory.py *)

\* The memories explored are built with a cap of at most MaxCap messages.
MaxCap == 2

\* At most this many messages are appended over a behaviour.
MaxAppends == 3

\* The clock advances in steps of TickHours, up to MaxClock.
TickHours == 12

MaxClock == 26

\* _cleanup_conversation: clear_old_messages(24).
MaxAgeHours == 24

\* The cap the agent configures (IntelligentAgent.__init__).
AgentMaxMessages == 50

\* IntelligentAgent.__init__: ConversationMemory(max_conversations=1000, ...).
AgentMaxConversations == 1000

\* cleanup_old_conversations(max_age_hours=48).
DefaultCleanupAge == 48

Users == {"u1", "u2"}

Roles == {"user", "assistant"}

\* Message contents of the memory specification.
Contents == {<<"hi">>, <<"weather">>}

Message(role, content, t) == [role |-> role, content |-> content, timestamp |-> t]

\* Python's s[-n:]: the last n elements, and the whole list when n = 0.
LastSlice(s, n) ==
    IF n = 0 \/ n >= Len(s) THEN s ELSE SubSeq(s, Len(s) - n + 1, Len(s))

\* ConversationMemory.get_or_create_conversation(user_id), on the dict.
get_or_create_conversation(convs, user_id, t) ==
    IF user_id \in DOMAIN convs THEN convs
    ELSE [u \in DOMAIN convs \cup {user_id} |->
            IF u = user_id
            THEN [messages |-> <<>>, created_at |-> t, last_updated |-> t]
            ELSE convs[u]]

\* An add_message that puts the message in front of the list.
add_message_first(conv, role, content, t) ==
    [conv EXCEPT !.messages = <<Message(role, content, t)>> \o @,
                 !.last_updated = t]

\* Conversation.add_message(role, content).
add_message(conv, role, content, t) ==
    [conv EXCEPT !.messages = Append(@, Message(role, content, t)),
                 !.last_updated = t]

\* Conversation.clear_old_messages(max_age_hours).
clear_old_messages(conv, max_age_hours, t) ==
    [conv EXCEPT !.messages =
        SelectSeq(@, LAMBDA msg : msg.timestamp > t - max_age_hours)]

CleanupKeepsOldest(conv, cap, t) ==
    clear_old_messages(
        IF Len(conv.messages) > cap
        THEN [conv EXCEPT !.messages = SubSeq(@, 1, cap)]
        ELSE conv,
        MaxAgeHours, t)

\* ConversationMemory._cleanup_conversation(conversation).
cleanup_conversation(conv, cap, t) ==
    clear_old_messages(
        IF Len(conv.messages) > cap
        THEN [conv EXCEPT !.messages = LastSlice(@, cap)]
        ELSE conv,
        MaxAgeHours, t)

\* ConversationMemory.add_user_message / add_assistant_message, on the dict.
add_to_memory(convs, user_id, role, content, cap, t) ==
    LET created == get_or_create_conversation(convs, user_id, t)
    IN [created EXCEPT ![user_id] =
            cleanup_conversation(add_message(@, role, content, t), cap, t)]

NoConversations == [u \in {} |-> 0]

\* cleanup_old_conversations: the conversations not updated since the cutoff
\* are deleted.
drop_old_conversations(convs, max_age_hours, t) ==
    [u \in {v \in DOMAIN convs : ~(convs[v].last_updated < t - max_age_hours)} |-> convs[u]]

\* cleanup_old_conversations: the sets of user ids that
\* sorted(..., key=last_updated)[:excess_count] can be; conversations with
\* equal last_updated come in the dict's insertion order, which is not kept
\* here.
ExcessChoices(convs, cap) ==
    IF Cardinality(DOMAIN convs) <= cap THEN {{}}
    ELSE {E \in SUBSET DOMAIN convs :
            /\ Cardinality(E) = Cardinality(DOMAIN convs) - cap
            /\ \A e \in E, k \in DOMAIN convs \ E :
                    convs[e].last_updated <= convs[k].last_updated}

NoLog == [u \in Users |-> <<>>]

\* analyze_conversation has not been called.
NoAnalysis ==
    [has_conversation |-> FALSE, total_messages |-> 0, user_messages |-> 0,
     assistant_messages |-> 0, topics |-> <<>>, overall_sentiment |-> "none",
     engagement_level |-> "none", insights |-> <<>>]

\* No read has been made on the memory.
ReadIdle == [op |-> "none", user_id |-> "None", limit |-> 0, value |-> <<>>,
             analysis |-> NoAnalysis]

TotalLogged == Len(log["u1"]) + Len(log["u2"])

IdleMemory ==
    /\ conversations = NoConversations
    /\ max_messages_per_conversation = AgentMaxMessages
    /\ max_conversations = AgentMaxConversations
    /\ reads = ReadIdle
    /\ now = 0
    /\ log = NoLog

----------------------------------------------------------------------------
(* Tool registry: agents/tool_manager.py *)

\* At most this many tools are registered in the registrations explored.
MaxTools == 3

\* Names a registered tool can carry: the seven shipped tools and one tool
\* whose name the priority list does not know.
ToolNames ==
    {"Weather", "GoogleSheets", "Gmail", "Lyrics", "Dictionary", "AdvancedAI",
     "WebSearch", "Custom"}

\* The list ToolManager.__init__ registers.
DefaultTools ==
    <<"Weather", "GoogleSheets", "Gmail", "Lyrics", "Dictionary", "AdvancedAI",
      "WebSearch">>

\* What tool.can_handle(query) does for one tool on one query.
Verdicts == {"true", "false", "raise"}

\* Registrations: every ordering of every set of at most MaxTools distinct names.
Registrations ==
    UNION {{s \in [1..n -> ToolNames] : \A i, j \in 1..n : i # j => s[i] # s[j]}
           : n \in 0..MaxTools}

priority_order_swapped ==
    <<"Gmail", "GoogleSheets", "Dictionary", "Lyrics", "AdvancedAI", "Weather", "WebSearch">>

\* select_tool: the fixed priority list.
priority_order ==
    <<"GoogleSheets", "Gmail", "Dictionary", "Lyrics", "AdvancedAI", "Weather", "WebSearch">>

\* select_tool, first loop: the tools whose can_handle accepted, in registration order.
suitable_tools(ts, v) ==
    LET F[i \in 0..Len(ts)] ==
            IF i = 0 THEN <<>>
            ELSE IF v[i] = "true" THEN Append(F[i - 1], ts[i]) ELSE F[i - 1]
    IN F[Len(ts)]

\* can_handle is called on every tool; nothing catches what it raises.
CanHandleRaises(ts, v) == \E i \in 1..Len(ts) : v[i] = "raise"

\* select_tool, second loop: the first name of priority_order carried by a suitable tool.
PriorityPick(suitable) ==
    LET hits == {k \in 1..Len(priority_order) :
                    \E j \in 1..Len(suitable) : suitable[j] = priority_order[k]}
    IN IF hits = {} THEN NoTool ELSE priority_order[Min(hits)]

FallbackPickNone(ts) == NoTool

\* select_tool, third loop: WebSearch when registered, None otherwise.
FallbackPick(ts) ==
    IF \E i \in 1..Len(ts) : ts[i] = "WebSearch" THEN "WebSearch" ELSE NoTool

\* ToolManager.select_tool(query), the query seen through the verdicts v.
select_tool(ts, v) ==
    IF CanHandleRaises(ts, v)
    THEN [outcome |-> "raised", tool |-> NoTool]
    ELSE LET s == suitable_tools(ts, v)
             p == IF s # <<>> THEN PriorityPick(s) ELSE NoTool
         IN [outcome |-> "returned",
             tool |-> IF p # NoTool THEN p ELSE FallbackPick(ts)]

\* ToolManager.needs_tool(query): any() stops at the first tool that accepts.
needs_tool(ts, v) ==
    LET firstTrue == {i \in 1..Len(ts) : v[i] = "true"}
        firstRaise == {i \in 1..Len(ts) : v[i] = "raise"}
    IN IF firstRaise # {} /\ (firstTrue = {} \/ Min(firstRaise) < Min(firstTrue))
       THEN [outcome |-> "raised", tool |-> NoTool]
       ELSE [outcome |-> "returned", tool |-> NoTool]

\* ToolManager.get_tool_suggestions(query): can_handle on every tool.
get_tool_suggestions(ts, v) ==
    IF CanHandleRaises(ts, v)
    THEN [outcome |-> "raised", tool |-> NoTool]
    ELSE [outcome |-> "returned", tool |-> NoTool]

SelIdle == [op |-> "none", verdict |-> <<>>, outcome |-> "none", tool |-> NoTool]

InitTools ==
    /\ IdleExt
    /\ tools \in Registrations
    /\ sel = SelIdle
    /\ wf = WfIdle
    /\ IdleMemory
    /\ IdleAgent

IdleTools ==
    /\ tools = DefaultTools
    /\ sel = SelIdle

SelectTool ==
    /\ sel.op = "none"
    /\ \E v \in [1..Len(tools) -> Verdicts] :
        LET r == select_tool(tools, v)
        IN /\ sel' = [op |-> "select_tool", verdict |-> v,
                      outcome |-> r.outcome, tool |-> r.tool]
           /\ UNCHANGED <<tools, wf, memVars, agentVars, extVars>>

NeedsTool ==
    /\ sel.op = "none"
    /\ \E v \in [1..Len(tools) -> Verdicts] :
        LET r == needs_tool(tools, v)
        IN /\ sel' = [op |-> "needs_tool", verdict |-> v,
                      outcome |-> r.outcome, tool |-> r.tool]
           /\ UNCHANGED <<tools, wf, memVars, agentVars, extVars>>

GetToolSuggestions ==
    /\ sel.op = "none"
    /\ \E v \in [1..Len(tools) -> Verdicts] :
        LET r == get_tool_suggestions(tools, v)
        IN /\ sel' = [op |-> "get_tool_suggestions", verdict |-> v,
                      outcome |-> r.outcome, tool |-> r.tool]
           /\ UNCHANGED <<tools, wf, memVars, agentVars, extVars>>

\* The call returns to its caller, which takes the result.
ReturnTools ==
    /\ sel.op # "none"
    /\ sel' = SelIdle
    /\ UNCHANGED <<tools, wf, memVars, agentVars, extVars>>

NextTools == SelectTool \/ NeedsTool \/ GetToolSuggestions \/ ReturnTools

SpecTools == (InitTools) /\ [][NextTools]_vars

----------------------------------------------------------------------------
(* Workflow executor: agents/workflow_manager.py *)

\* A workflow of the explored step lists has at most this many steps.
MaxSteps == 2

\* WorkflowStep.output_variable = None.
NoKey == -1

\* A key of the results dict that is the step_id of no step of the list: the
\* name of an output variable, or a depends_on entry that names no step.
ExtraKey == 0

\* Step i of a list carries step_id i (ids are unique within the list).
StepKeys(n) == {ExtraKey} \cup (1..n)

\* depends_on lists of at most two entries, as sets.
DependsOnChoices(n) == {{}} \cup {{a, b} : a, b \in StepKeys(n)}

\* The step lists explored: n steps, any depends_on, and at most one step
\* that declares an output_variable (as in the shipped templates).
StepLists(n) ==
    {sl \in [1..n -> [step_id : 1..n,
                      depends_on : DependsOnChoices(n),
                      output_variable : {NoKey} \cup StepKeys(n)]] :
        /\ \A i \in 1..n : sl[i].step_id = i
        /\ \A i, j \in 1..n :
              (sl[i].output_variable # NoKey /\ sl[j].output_variable # NoKey) => i = j}

\* What _execute_step does for a step: the adapter returns a result, or
\* raises (the adapter fails, or the tool name is not registered).
StepOutcomes == {"ok", "raise"}

\* What the language model does for the summary prompt.
SummaryOutcomes == {"text", "fail"}

StepIdsOf(seq) == {seq[k].step_id : k \in 1..Len(seq)}

\* _sort_steps_by_dependencies, one round: the remaining steps that are ready.
ready_steps(sorted_steps, remaining_steps) ==
    SelectSeq(remaining_steps,
              LAMBDA step : \/ step.depends_on = {}
                            \/ \A dep \in step.depends_on : dep \in StepIdsOf(sorted_steps))

RECURSIVE SortLoop(_, _)
\* _sort_steps_by_dependencies, the while loop.
SortLoop(sorted_steps, remaining_steps) ==
    IF remaining_steps = <<>>
    THEN [order |-> sorted_steps, warned |-> FALSE, remaining |-> <<>>]
    ELSE LET ready == ready_steps(sorted_steps, remaining_steps)
         IN IF ready = <<>>
            THEN [order |-> sorted_steps \o remaining_steps, warned |-> TRUE,
                  remaining |-> remaining_steps]
            ELSE SortLoop(sorted_steps \o ready,
                          SelectSeq(remaining_steps,
                                    LAMBDA step : step.step_id \notin StepIdsOf(ready)))

SortIdentity(steps) == [order |-> steps, warned |-> FALSE, remaining |-> <<>>]

\* SmartWorkflowManager._sort_steps_by_dependencies(steps).
sort_steps_by_dependencies(steps) == SortLoop(<<>>, steps)

\* execute_workflow, "except Exception as e" of a step whose result is stored
\* all the same.
step_failed_storing(acc, step) ==
    [acc EXCEPT !.errors = Append(@, [kind |-> "error", step |-> step.step_id]),
                !.results = @ \cup {step.step_id},
                !.invoked = Append(@, step.step_id),
                !.raised = Append(@, step.step_id)]

\* execute_workflow, "except Exception as e" that records no error.
step_failed_silently(acc, step) ==
    [acc EXCEPT !.invoked = Append(@, step.step_id),
                !.raised = Append(@, step.step_id)]

\* execute_workflow, "except Exception as e" in the loop: _execute_step raised
\* for the step, one error is appended and the loop goes on.
step_failed(acc, step) ==
    [acc EXCEPT !.errors = Append(@, [kind |-> "error", step |-> step.step_id]),
                !.invoked = Append(@, step.step_id),
                !.raised = Append(@, step.step_id)]

RECURSIVE RunSteps(_, _, _, _)
\* execute_workflow, the for loop over the sorted steps from position k on.
\* acc: results (the keys of the dict), errors, completed_steps, and the steps
\* visited and the steps whose adapter was invoked, in order.
RunSteps(order, k, o, acc) ==
    IF k > Len(order) THEN acc
    ELSE LET step == order[k]
             missing_deps == {dep \in step.depends_on : dep \notin acc.results}
             seen == [acc EXCEPT !.visited = Append(@, step.step_id)]
         IN IF step.depends_on # {} /\ missing_deps # {}
            THEN RunSteps(order, k + 1, o,
                     [seen EXCEPT !.errors =
                         Append(@, [kind |-> "missing", step |-> step.step_id])])
            ELSE IF o[step.step_id] = "raise"
            THEN RunSteps(order, k + 1, o, step_failed(seen, step))
            ELSE RunSteps(order, k + 1, o,
                     [seen EXCEPT !.results =
                                      @ \cup {step.step_id}
                                        \cup (IF step.output_variable # NoKey
                                              THEN {step.output_variable} ELSE {}),
                                  !.completed = @ + 1,
                                  !.invoked = Append(@, step.step_id)])

\* _generate_workflow_summary: the model's text, or the templated fallback.
generate_workflow_summary(steps, results, errors, llm) ==
    IF llm = "text"
    THEN [kind |-> "llm", n |-> 0, m |-> 0, k |-> 0]
    ELSE IF errors # <<>>
    THEN [kind |-> "issues", n |-> Cardinality(results), m |-> Len(steps), k |-> Len(errors)]
    ELSE [kind |-> "all", n |-> 0, m |-> Len(steps), k |-> 0]

\* SmartWorkflowManager.execute_workflow(steps): the WorkflowResult returned,
\* with the run order and the steps visited and invoked.
execute_workflow(steps, o, llm) ==
    LET sorted == sort_steps_by_dependencies(steps)
        acc == RunSteps(sorted.order, 1, o,
                        [results |-> {}, errors |-> <<>>, completed |-> 0,
                         visited |-> <<>>, invoked |-> <<>>, raised |-> <<>>])
    IN [called |-> TRUE,
        steps |-> steps,
        order |-> [k \in 1..Len(sorted.order) |-> sorted.order[k].step_id],
        warned |-> sorted.warned,
        appended |-> [k \in 1..Len(sorted.remaining) |-> sorted.remaining[k].step_id],
        visited |-> acc.visited,
        invoked |-> acc.invoked,
        raised |-> acc.raised,
        success |-> acc.errors = <<>>,
        steps_completed |-> acc.completed,
        total_steps |-> Len(steps),
        results |-> acc.results,
        final_output |-> generate_workflow_summary(steps, acc.results, acc.errors, llm),
        errors |-> acc.errors]

InitWorkflow ==
    /\ IdleExt
    /\ tools = DefaultTools
    /\ sel = SelIdle
    /\ wf = WfIdle
    /\ IdleMemory
    /\ IdleAgent

ExecuteWorkflow ==
    /\ ~wf.called
    /\ \E n \in 0..MaxSteps :
         \E steps \in StepLists(n) :
           \E o \in [1..n -> StepOutcomes] :
             \E llm \in SummaryOutcomes :
                wf' = execute_workflow(steps, o, llm)
    /\ UNCHANGED <<toolVars, memVars, agentVars, extVars>>

\* The WorkflowResult is handed to the caller.
ReturnWorkflow ==
    /\ wf.called
    /\ wf' = WfIdle
    /\ UNCHANGED <<toolVars, memVars, agentVars, extVars>>

NextWorkflow == ExecuteWorkflow \/ ReturnWorkflow

SpecWorkflow == (InitWorkflow) /\ [][NextWorkflow]_vars

----------------------------------------------------------------------------
(* Claims on the workflow executor *)

\* The step ids a step reaches through depends_on, in at most MaxSteps + 1 hops.
RECURSIVE ReachFrom(_, _, _)
ReachFrom(steps, S, n) ==
    IF n = 0 THEN S
    ELSE ReachFrom(steps,
                   S \cup UNION {steps[i].depends_on : i \in S \cap (1..Len(steps))},
                   n - 1)

DependsOnClosure(steps, i) == ReachFrom(steps, steps[i].depends_on, Len(steps))

HasCycle(steps) == \E i \in 1..Len(steps) : i \in DependsOnClosure(steps, i)

WellFormed(steps) ==
    /\ ~HasCycle(steps)
    /\ \A i \in 1..Len(steps) : steps[i].depends_on \subseteq 1..Len(steps)

PositionIn(seq, id) == CHOOSE k \in 1..Len(seq) : seq[k] = id

\* C3: for a step list with unique ids, acyclic and referring only to ids of
\* the list, the run order holds every step once, execute_workflow visits the
\* steps in that order, and every step comes after each step it depends on.
C3_DependencyOrdering ==
    (wf.called /\ WellFormed(wf.steps))
        => /\ Len(wf.order) = Len(wf.steps)
           /\ Range(wf.order) = 1..Len(wf.steps)
           /\ wf.visited = wf.order
           /\ \A i \in 1..Len(wf.steps) :
                 \A d \in wf.steps[i].depends_on :
                    PositionIn(wf.order, d) < PositionIn(wf.order, i)

\* The first step of the list depends on the second, and is run after it.
C3_Witness ==
    /\ wf.called /\ WellFormed(wf.steps)
    /\ Len(wf.steps) = 2
    /\ wf.steps[1].depends_on = {2}
    /\ wf.order = <<2, 1>>
    /\ wf.invoked = <<2, 1>>

\* C4: execute_workflow on a step list with a dependency cycle returns a
\* WorkflowResult whose errors list is not empty.
C4_CycleReflectedInErrors ==
    (wf.called /\ HasCycle(wf.steps)) => wf.errors # <<>>

----------------------------------------------------------------------------
(* Conversation memory: the specification *)

InitMemory ==
    /\ IdleExt
    /\ tools = DefaultTools
    /\ sel = SelIdle
    /\ wf = WfIdle
    /\ conversations = NoConversations
    /\ max_messages_per_conversation \in 1..MaxCap
    /\ max_conversations \in 1..MaxCap
    /\ reads = ReadIdle
    /\ now = 0
    /\ log = NoLog
    /\ IdleAgent

AddMessage(user_id, role, content) ==
    /\ TotalLogged < MaxAppends
    /\ conversations' = add_to_memory(conversations, user_id, role, content,
                                      max_messages_per_conversation, now)
    /\ log' = [log EXCEPT ![user_id] = Append(@, Message(role, content, now))]
    /\ UNCHANGED <<max_messages_per_conversation, max_conversations, now, toolVars, wf, agentVars, reads, extVars>>

AddUserMessage == \E u \in Users, c \in Contents : AddMessage(u, "user", c)

AddAssistantMessage == \E u \in Users, c \in Contents : AddMessage(u, "assistant", c)

\* get_conversation_context(user_id, limit): it reads through
\* get_or_create_conversation, which creates the conversation when absent.
GetConversationContext ==
    \E u \in Users :
        /\ conversations' = get_or_create_conversation(conversations, u, now)
        /\ UNCHANGED <<log, max_messages_per_conversation, max_conversations, now, toolVars, wf, agentVars, reads, extVars>>

\* clear_conversation(user_id).
ClearConversation ==
    \E u \in Users :
        /\ u \in DOMAIN conversations
        /\ conversations' = [v \in DOMAIN conversations \ {u} |-> conversations[v]]
        /\ log' = [log EXCEPT ![u] = <<>>]
        /\ UNCHANGED <<max_messages_per_conversation, max_conversations, now, toolVars, wf, agentVars, reads, extVars>>

\* cleanup_old_conversations(max_age_hours).
CleanupOldConversations ==
    \E max_age_hours \in {TickHours, DefaultCleanupAge} :
        LET young == drop_old_conversations(conversations, max_age_hours, now)
        IN \E E \in ExcessChoices(young, max_conversations) :
            /\ conversations' = [u \in DOMAIN young \ E |-> young[u]]
            /\ log' = [u \in Users |-> IF u \in DOMAIN young \ E THEN log[u] ELSE <<>>]
            /\ UNCHANGED <<max_messages_per_conversation, max_conversations, now,
                           toolVars, wf, agentVars, reads, extVars>>

Tick ==
    /\ now + TickHours <= MaxClock
    /\ now' = now + TickHours
    /\ UNCHANGED <<conversations, max_messages_per_conversation, max_conversations, log, toolVars, wf, agentVars, reads, extVars>>

NextMemory ==
    \/ AddUserMessage
    \/ AddAssistantMessage
    \/ GetConversationContext
    \/ ClearConversation
    \/ CleanupOldConversations
    \/ Tick

SpecMemory == (InitMemory) /\ [][NextMemory]_vars

----------------------------------------------------------------------------
(* Claims on the conversation memory *)

AllYoung(u) ==
    \A k \in 1..Len(log[u]) : log[u][k].timestamp > now - MaxAgeHours

\* The last n elements of s (all of s when it has fewer).
MostRecent(s, n) ==
    [k \in 1..(IF Len(s) < n THEN Len(s) ELSE n) |->
        s[k + (IF Len(s) < n THEN 0 ELSE Len(s) - n)]]

\* C5: while every message appended to a user's conversation is younger than
\* 24 hours, the conversation holds at most cap messages after every add, and
\* they are the cap most recently appended messages, in append order.
C5_MemoryBound ==
    \A u \in Users :
        (u \in DOMAIN conversations /\ AllYoung(u))
            => /\ Len(conversations[u].messages) <= max_messages_per_conversation
               /\ conversations[u].messages
                     = MostRecent(log[u], max_messages_per_conversation)

\* More than cap messages were appended to one conversation: the oldest is gone.
C5_Witness ==
    /\ "u1" \in DOMAIN conversations
    /\ AllYoung("u1")
    /\ max_messages_per_conversation = 2
    /\ Len(log["u1"]) = 3
    /\ log["u1"][1].content # log["u1"][2].content
    /\ conversations["u1"].messages = <<log["u1"][2], log["u1"][3]>>

----------------------------------------------------------------------------
(* Claims on the tool registry *)

Registered(name) == \E i \in 1..Len(tools) : tools[i] = name

Accepts(name) ==
    \E i \in 1..Len(tools) : tools[i] = name /\ sel.verdict[i] = "true"

NoneAccepts == \A i \in 1..Len(tools) : sel.verdict[i] = "false"

\* C1: whenever select_tool returns and a tool named WebSearch is registered,
\* the tool returned is not null; when no registered tool accepts the text,
\* the tool returned is WebSearch.
C1_FallbackAlwaysSomething ==
    (sel.op = "select_tool" /\ sel.outcome = "returned" /\ Registered("WebSearch"))
        => /\ sel.tool # NoTool
           /\ NoneAccepts => sel.tool = "WebSearch"

C1_Witness ==
    /\ sel.op = "select_tool" /\ sel.outcome = "returned"
    /\ Len(tools) >= 2 /\ Registered("WebSearch")
    /\ NoneAccepts
    /\ sel.tool = "WebSearch"

\* The priority list as the claim states it.
ClaimedPriority ==
    <<"GoogleSheets", "Gmail", "Dictionary", "Lyrics", "AdvancedAI", "Weather", "WebSearch">>

\* C2: when two registered tools A and B both accept the text and A precedes B
\* in the fixed priority list, select_tool does not return B, and returns A
\* when A and B are the only tools that accept, whatever the registration order.
C2_PriorityDeterminism ==
    (sel.op = "select_tool" /\ sel.outcome = "returned")
        => \A a, b \in 1..Len(ClaimedPriority) :
              (a < b /\ Accepts(ClaimedPriority[a]) /\ Accepts(ClaimedPriority[b]))
                  => /\ sel.tool # ClaimedPriority[b]
                     /\ (\A n \in ToolNames :
                            Accepts(n) => n \in {ClaimedPriority[a], ClaimedPriority[b]})
                        => sel.tool = ClaimedPriority[a]

\* B is registered before A, both accept, and A is returned.
C2_Witness ==
    /\ sel.op = "select_tool" /\ sel.outcome = "returned"
    /\ Len(tools) >= 3
    /\ tools[1] = "Weather" /\ tools[2] = "Gmail"
    /\ sel.verdict[1] = "true" /\ sel.verdict[2] = "true" /\ sel.verdict[3] = "false"
    /\ sel.tool = "Gmail"

\* C9: a can_handle that raises during select_tool counts as false: select_tool
\* still returns, and returns what it returns with that tool not matching.
C9_RaisingPredicateIsFalse ==
    (sel.op = "select_tool" /\ CanHandleRaises(tools, sel.verdict))
        => LET asFalse == [i \in 1..Len(tools) |->
                              IF sel.verdict[i] = "raise" THEN "false" ELSE sel.verdict[i]]
           IN /\ sel.outcome = "returned"
              /\ sel.tool = select_tool(tools, asFalse).tool

----------------------------------------------------------------------------
(* Orchestrator: agents/intelligent_agent.py -- texts *)

\* A text is a sequence of tokens.  " " is whitespace; "HI" is "hi" in upper
\* case; ":)" is one of the emoji _format_response looks for; "X" is the
\* cross mark a Dictionary error starts with; "LONG" is a run of more than
\* MAX_MESSAGE_LENGTH - 100 characters.  A token in capitals with underscores
\* is one of the fixed sentences of the source.

\* config.MAX_MESSAGE_LENGTH.
MAX_MESSAGE_LENGTH == 4096

\* The buffer _format_response leaves under MAX_MESSAGE_LENGTH.
FormatBuffer == 100

\* config.GEMINI_QUOTA_LIMIT, the default of usage_data["quota_limit"].
GEMINI_QUOTA_LIMIT == 50

\* process_message: the state is reset when more than this many messages
\* were counted since the last reset.
ResetAfter == 50

\* What a tool returned when it returned something that is not a str.
NonStr == <<"NONSTR">>

IsStr(text) == text # NonStr

Max(S) == CHOOSE x \in S : \A y \in S : x >= y

\* str.lower().
Lower(text) == [i \in 1..Len(text) |-> IF text[i] = "HI" THEN "hi" ELSE text[i]]

\* str.strip().
Strip(text) ==
    LET solid == {i \in 1..Len(text) : text[i] # " "}
    IN IF solid = {} THEN <<>> ELSE SubSeq(text, Min(solid), Max(solid))

\* str.split().
Split(text) == SelectSeq(text, LAMBDA tok : tok # " ")

RECURSIVE Join(_)
\* " ".join(words).
Join(words) ==
    IF Len(words) <= 1 THEN words
    ELSE <<Head(words), " ">> \o Join(Tail(words))

\* len(text), in characters.
CharLen(text) ==
    IF \E i \in 1..Len(text) : text[i] = "LONG" THEN MAX_MESSAGE_LENGTH ELSE Len(text)

\* The keywords of the source that occur inside a token.
Sub(tok) ==
    CASE tok = "send email"   -> {"send email", "send", "email", "mail"}
      [] tok = "meeting prep" -> {"meeting prep", "meeting"}
      [] tok = "dummy data"   -> {"dummy data"}
      [] tok = "weather C"    -> {"weather", "C"}
      [] tok = "TOOL_ERROR"   -> {"sorry", "error"}
      [] tok = "WORKFLOW_ERROR" -> {"sorry", "error"}
      [] OTHER                -> {tok}

\* keyword in text.lower(), for every keyword at once.
Keywords(text) == UNION {Sub(Lower(text)[i]) : i \in 1..Len(text)}

\* any(keyword in text.lower() for keyword in keywords).
AnyKeyword(text, keywords) == Keywords(text) \cap keywords # {}

\* re.search("first.*second", text.lower()); first = second stands for the
\* literal pattern "first".
Search(first, second, text) ==
    IF first = second
    THEN first \in Keywords(text)
    ELSE \E i, j \in 1..Len(text) :
            /\ i < j
            /\ first \in Sub(Lower(text)[i])
            /\ second \in Sub(Lower(text)[j])

\* _format_response(response).
format_response_plain(response) ==
    LET cut == IF CharLen(response) > MAX_MESSAGE_LENGTH - FormatBuffer
               THEN <<"LONG_PREFIX", "...">>
               ELSE response
    IN Strip(cut)

format_response(response) ==
    LET stripped == format_response_plain(response)
    IN IF ":)" \in Range(stripped) THEN stripped ELSE stripped \o <<" ", ":)">>

----------------------------------------------------------------------------
(* Orchestrator: what the tools and the language model answer *)

\* The messages sent to the agent.
Messages ==
    {<<>>, <<" ">>, <<"hi">>, <<" ", "HI">>, <<"hi", " ", ":)">>,
     <<"remember">>, <<"my name is">>, <<"send email">>, <<"weather">>,
     <<"define">>, <<"news">>, <<"meeting prep">>,
     <<"weather", " ", "notify">>, <<"search", " ", "update">>,
     <<"weather", " ", "send email">>}

\* The user ids the agent is called with.
UserIds == {NoUser, "u1"}

\* What a tool's execute does: it raises, or it returns a text or something
\* that is not a str.
ToolTexts(query) ==
    {<<>>, query, <<"ok">>, <<"sorry">>, <<"X", " ", "fail">>, <<"dummy data">>,
     <<"weather C", " ", "dummy data">>}

ToolOutcomes(query) ==
    {[raises |-> TRUE, text |-> <<>>]}
    \cup {[raises |-> FALSE, text |-> t] : t \in ToolTexts(query) \cup {NonStr}}

\* What WebSearch's execute does when it is the fallback.
SearchOutcomes ==
    {[raises |-> TRUE, text |-> <<>>]}
    \cup {[raises |-> FALSE, text |-> t] : t \in {<<>>, <<"results">>}}

\* What model.generate_content does: it raises a quota error or another
\* error, it returns no text, or it returns a text.
LLMTexts(query, cleaned_message) ==
    {<<"answer">>, query, cleaned_message, <<" ">>, <<"LONG">>}

LLMOutcomes(query, cleaned_message) ==
    {[kind |-> k, text |-> <<>>] : k \in {"quota_error", "error", "no_text"}}
    \cup {[kind |-> "text", text |-> t] : t \in LLMTexts(query, cleaned_message)}

\* The keys of workflow_patterns.
WorkflowTypes == {"weather_email", "research_update", "data_analysis_report", "meeting_prep"}

NoWorkflow == "None"

\* What the model answers to _ai_workflow_detection: a workflow type, "none",
\* or it fails.
DetectOutcomes == WorkflowTypes \cup {"none", "fail"}

----------------------------------------------------------------------------
(* Orchestrator: the steps of process_message *)

\* The state a step of process_message works on.
Cur ==
    [pm |-> pm, conversations |-> conversations, log |-> log, wf |-> wf,
     requests_made |-> requests_made, quota_exceeded |-> quota_exceeded]

\* conversation_memory.add_user_message / add_assistant_message, under
\* "if user_id:".
Remember(w, role, content) ==
    IF w.pm.user_id = NoUser THEN w
    ELSE [w EXCEPT
            !.conversations = add_to_memory(@, w.pm.user_id, role, content,
                                            max_messages_per_conversation, now),
            !.log = [@ EXCEPT ![w.pm.user_id] = Append(@, Message(role, content, now))],
            !.pm.added = Append(@, [role |-> role, content |-> content])]

\* The calls made on the collaborators, in order.
Trace(w, op, arg) == [w EXCEPT !.pm.trace = Append(@, [op |-> op, arg |-> arg])]

\* process_message returns ret.
Returns(w, ret) == [w EXCEPT !.pm.pc = "done", !.pm.ret = ret]

\* process_message without its "except Exception" clause.
process_message_reraise(w) == [w EXCEPT !.pm.pc = "done", !.pm.raised = TRUE]

\* process_message, "except Exception": the apology is returned.
process_message_except(w) ==
    [w EXCEPT !.pm.pc = "done", !.pm.caught = TRUE, !.pm.ret = <<"ERROR_PROCESSING">>]

\* process_message from "# Validate result" on; a result that is not a str
\* has no strip().
validate_result(w, result) ==
    IF ~IsStr(result)
    THEN process_message_except(w)
    ELSE IF result = <<>> \/ Strip(result) = <<>>
    THEN Returns([w EXCEPT !.pm.empty = TRUE], <<"TROUBLE_REPHRASE">>)
    ELSE IF Lower(Strip(result)) = Lower(w.pm.cleaned_message)
    THEN [w EXCEPT !.pm.pc = "retry", !.pm.echoed = TRUE]
    ELSE Returns([Remember(w, "assistant", result) EXCEPT !.pm.accepted = TRUE], result)

\* _is_conversation_memory_query(query).
is_conversation_memory_query(query) == AnyKeyword(query, {"remember"})

\* _is_memory_query(query).
is_memory_query(query) == AnyKeyword(query, {"my name is"})

is_email_request_never(query) == FALSE

\* process_message: is_email_request.
is_email_request(query) == AnyKeyword(query, {"send email"})

\* analyze_conversation(user_id)["has_conversation"].
has_conversation(convs, user_id) ==
    /\ user_id \in DOMAIN convs
    /\ convs[user_id].messages # <<>>

\* _handle_conversation_memory_query(user_id).
handle_conversation_memory_query(convs, user_id) ==
    IF user_id = NoUser THEN <<"NO_USER_CONTEXT">>
    ELSE IF ~has_conversation(convs, user_id) THEN <<"FIRST_INTERACTION">>
    ELSE <<"ANALYSIS_REPORT">>

\* BaseTool.can_handle of the shipped tools: a keyword of the tool occurs in
\* the query.
can_handle(tool, query) ==
    CASE tool = "Weather"      -> AnyKeyword(query, {"weather"})
      [] tool = "GoogleSheets" -> AnyKeyword(query, {"update"})
      [] tool = "Gmail"        -> AnyKeyword(query, {"email", "mail", "send email"})
      [] tool = "Dictionary"   -> AnyKeyword(query, {"define"})
      [] tool = "WebSearch"    -> AnyKeyword(query, {"search", "news"})
      [] OTHER                 -> FALSE

\* The verdicts of the registered tools on a query.
VerdictsOn(ts, query) ==
    [i \in 1..Len(ts) |-> IF can_handle(ts[i], query) THEN "true" ELSE "false"]

\* workflow_patterns: the triggers made of the keywords above, in order.
workflow_patterns ==
    <<[name |-> "weather_email", first |-> "weather", second |-> "email"],
      [name |-> "weather_email", first |-> "weather", second |-> "notify"],
      [name |-> "research_update", first |-> "search", second |-> "update"],
      [name |-> "meeting_prep", first |-> "meeting prep", second |-> "meeting prep"]>>

\* detect_workflow_intent(query), the loop over the patterns.
pattern_workflow(query) ==
    LET hits == {i \in 1..Len(workflow_patterns) :
                    Search(workflow_patterns[i].first, workflow_patterns[i].second, query)}
    IN IF hits = {} THEN NoWorkflow ELSE workflow_patterns[Min(hits)].name

\* _ai_workflow_detection(query), given what the model answered.
ai_workflow_detection(d) == IF d \in WorkflowTypes THEN d ELSE NoWorkflow

\* _create_weather_email_workflow / _create_research_update_workflow: the
\* first step stores its result under an output variable, the second depends
\* on the first.
TemplateSteps ==
    <<[step_id |-> 1, depends_on |-> {}, output_variable |-> ExtraKey],
      [step_id |-> 2, depends_on |-> {1}, output_variable |-> NoKey]>>

\* create_workflow(workflow_type, query, user_context): the builders of
\* data_analysis_report and meeting_prep are not defined, the call raises
\* AttributeError.
create_workflow(workflow_type) ==
    IF workflow_type \in {"weather_email", "research_update"}
    THEN [raises |-> FALSE, steps |-> TemplateSteps]
    ELSE [raises |-> TRUE, steps |-> <<>>]

\* quota_monitor.increment_request().
increment_request(w) ==
    [w EXCEPT !.requests_made = @ + 1,
              !.quota_exceeded = (w.requests_made + 1 >= GEMINI_QUOTA_LIMIT) \/ @]

\* A monitor that never refuses.
can_make_request_always(w) == TRUE

\* quota_monitor.can_make_request().
can_make_request(w) == ~w.quota_exceeded

\* conversation_memory.get_conversation_context(user_id, limit), under
\* "if user_id:": the conversation is created when absent.
get_conversation_context(w) ==
    IF w.pm.user_id = NoUser THEN w
    ELSE [w EXCEPT !.conversations = get_or_create_conversation(@, w.pm.user_id, now)]

\* _format_general_quota_exceeded_response(query).
format_general_quota_exceeded_response(query) ==
    <<"ASKING_ABOUT", " ">> \o query \o <<" ", "QUOTA_SUGGESTIONS">>

\* _format_quota_exceeded_response(original_query, search_results, tool_used);
\* the search results here are short and hold no "answer" line.
format_quota_exceeded_response(original_query, search_results) ==
    IF IsStr(search_results)
    THEN <<"SEARCH_RESULTS_FOR", " ">> \o original_query \o <<" ", "SEARCH_RESULTS", " ">>
            \o search_results \o <<" ", "QUOTA_NOTE">>
    ELSE <<"SEARCH_RESULTS_FOR", " ">> \o original_query \o <<" ", "NONSTR_REPR", " ",
           "QUOTA_NOTE_SHORT">>

\* The query _handle_general_query is called with.
general_query(p) ==
    IF p.pc = "retry" THEN <<"PLEASE_HELP", " ">> \o p.cleaned_message
    ELSE p.cleaned_message

\* _handle_general_query(query, user_id) when the quota is exceeded.
handle_general_query_no_quota(w) ==
    format_general_quota_exceeded_response(general_query(w.pm))

\* _handle_general_query(query, user_id), given what the model did: the new
\* state and the text returned.
handle_general_query(w, l) ==
    LET query == general_query(w.pm)
        asked == Trace(get_conversation_context(w), "generate_content", "general")
        formatted_response == format_response(l.text)
    IN CASE l.kind = "quota_error" ->
                [w |-> asked, result |-> format_general_quota_exceeded_response(query)]
         [] l.kind = "error" ->
                [w |-> asked, result |-> <<"TECHNICAL_DIFFICULTIES">>]
         [] l.kind = "no_text" \/ (l.kind = "text" /\ l.text = <<>>) ->
                [w |-> increment_request(asked), result |-> <<"TROUBLE_NOW">>]
         [] OTHER ->
                [w |-> increment_request(asked),
                 result |-> IF /\ Strip(formatted_response) # <<>>
                               /\ Lower(Strip(formatted_response)) # Lower(query)
                            THEN formatted_response
                            ELSE <<"REPHRASE_QUESTION">>]

\* _get_tool_context(original_tool, query).
get_tool_context(original_tool) ==
    CASE original_tool = "Dictionary" -> <<"ANALYZED_FOR_DEFINITION">>
      [] original_tool = "Weather"    -> <<"ANALYZED_FOR_WEATHER">>
      [] OTHER                        -> <<"ANALYZED_RESULTS">>

\* _analyze_search_results(original_query, search_results, tool_used, user_id),
\* given what the model did.
analyze_search_results(w, l) ==
    LET asked == Trace(get_conversation_context(w), "generate_content", "analysis")
    IN CASE l.kind = "quota_error" ->
                [w |-> asked,
                 result |-> format_quota_exceeded_response(w.pm.cleaned_message,
                                                           w.pm.search_results)]
         [] l.kind = "error" ->
                [w |-> asked, result |-> w.pm.search_results]
         [] l.kind = "no_text" \/ (l.kind = "text" /\ l.text = <<>>) ->
                [w |-> increment_request(asked), result |-> w.pm.search_results]
         [] OTHER ->
                [w |-> increment_request(asked),
                 result |-> get_tool_context(w.pm.original_tool) \o <<" ">>
                                \o format_response(l.text)]

\* _is_dummy_data(result).
is_dummy_data(result) ==
    IF AnyKeyword(result, {"weather"}) /\ "C" \in Keywords(result)
    THEN FALSE
    ELSE AnyKeyword(result, {"dummy data"})

\* _extract_search_terms(query).
extract_search_terms(query) ==
    LET stop_words == {"define", "search"}
        short == {"hi", ":)"}
        key_words == SelectSeq(Split(Lower(query)),
                               LAMBDA word : word \notin stop_words /\ word \notin short)
    IN IF key_words # <<>> THEN Join(key_words) ELSE query

\* ToolManager.execute_tool(tool, query): the text of the tool, or the
\* apology when the tool raised.
execute_tool(out) == IF out.raises THEN <<"TOOL_ERROR">> ELSE out.text

\* str.startswith(tok).
StartsWith(text, tok) == text # <<>> /\ Head(text) = tok

\* _fallback_to_websearch(query, original_tool, user_id), up to the search.
fallback_to_websearch(w, original_tool) ==
    IF "WebSearch" \in Range(tools)
    THEN [Trace(w, "fallback_to_websearch", original_tool) EXCEPT
            !.pm.pc = "fallback_search",
            !.pm.original_tool = original_tool,
            !.pm.search_query = extract_search_terms(w.pm.cleaned_message)]
    ELSE [w EXCEPT !.pm.pc = "general"]

\* _handle_tool_query(query, user_id) after execute_tool returned tool_result.
handle_tool_result(w, tool_result) ==
    LET tool == w.pm.tool
    IN IF tool = "WebSearch"
       THEN [w EXCEPT !.pm.pc = "analyze", !.pm.original_tool = "WebSearch",
                      !.pm.search_results = tool_result]
       ELSE IF ~IsStr(tool_result)
       THEN fallback_to_websearch(w, "system")
       ELSE IF tool = "Dictionary"
       THEN IF tool_result # <<>> /\ ~StartsWith(Lower(Strip(tool_result)), "X")
            THEN validate_result(w, tool_result)
            ELSE fallback_to_websearch(w, tool)
       ELSE IF is_dummy_data(tool_result)
       THEN fallback_to_websearch(w, tool)
       ELSE IF AnyKeyword(tool_result, {"error", "sorry"})
       THEN fallback_to_websearch(w, tool)
       ELSE validate_result(w, tool_result)

\* _handle_workflow_query(query, workflow_type, user_id), up to the execution
\* of the workflow.
handle_workflow_query(w, workflow_type) ==
    LET entered == Remember([w EXCEPT !.pm.branch = "workflow"], "user",
                            w.pm.cleaned_message)
        created == create_workflow(workflow_type)
    IN IF created.raises
       THEN validate_result(Remember(entered, "assistant", <<"WORKFLOW_ERROR">>),
                            <<"WORKFLOW_ERROR">>)
       ELSE IF created.steps = <<>>
       THEN validate_result(entered, <<"NO_WORKFLOW">>)
       ELSE [entered EXCEPT !.pm.pc = "execute_workflow",
                            !.pm.workflow_steps = created.steps]

\* _handle_workflow_query: the response made of the WorkflowResult.
workflow_response(r) ==
    LET summary == CASE r.final_output.kind = "llm"    -> "SUMMARY_TEXT"
                     [] r.final_output.kind = "issues" -> "SUMMARY_ISSUES"
                     [] OTHER                          -> "SUMMARY_ALL_COMPLETED"
    IN IF r.success
       THEN <<"WORKFLOW_COMPLETED", " ", summary, " ", "EXECUTED_STEPS">>
       ELSE IF r.errors # <<>>
       THEN <<"WORKFLOW_PARTIAL", " ", summary, " ", "STEPS_COMPLETED", " ", "ISSUES">>
       ELSE <<"WORKFLOW_PARTIAL", " ", summary, " ", "STEPS_COMPLETED">>

\* process_message after the message was cleaned and remembered: the branch
\* taken up to its first await.
dispatch(w) ==
    LET query == w.pm.cleaned_message
    IN IF is_conversation_memory_query(query)
       THEN validate_result([w EXCEPT !.pm.branch = "conversation_memory"],
                            handle_conversation_memory_query(w.conversations, w.pm.user_id))
       ELSE IF is_memory_query(query)
       THEN [w EXCEPT !.pm.branch = "memory", !.pm.pc = "general"]
       ELSE IF is_email_request(query)
       THEN IF "Gmail" \in Range(tools)
            THEN [w EXCEPT !.pm.branch = "email", !.pm.pc = "execute_tool",
                           !.pm.tool = "Gmail"]
            ELSE validate_result([w EXCEPT !.pm.branch = "email"], <<"X", " ", "GMAIL_UNAVAILABLE">>)
       ELSE IF pattern_workflow(query) # NoWorkflow
       THEN handle_workflow_query(Trace(w, "detect_workflow_intent", pattern_workflow(query)),
                                  pattern_workflow(query))
       ELSE [w EXCEPT !.pm.pc = "detect"]

\* process_message after detect_workflow_intent returned workflow_type.
after_detect(w, workflow_type) ==
    LET query == w.pm.cleaned_message
        detected == Trace(w, "detect_workflow_intent", workflow_type)
        selected == select_tool(tools, VerdictsOn(tools, query))
    IN IF workflow_type # NoWorkflow
       THEN handle_workflow_query(detected, workflow_type)
       ELSE IF selected.outcome = "raised"
       THEN process_message_except(detected)
       ELSE IF selected.tool # NoTool
       THEN [Trace(detected, "select_tool", selected.tool) EXCEPT
                !.pm.branch = "tool", !.pm.pc = "execute_tool", !.pm.tool = selected.tool]
       ELSE [Trace(detected, "select_tool", NoTool) EXCEPT
                !.pm.branch = "general", !.pm.pc = "general"]

----------------------------------------------------------------------------
(* Orchestrator: the specification *)

\* At most this many process_message calls are made over a behaviour.
MaxCalls == 1

\* The step's new state becomes the state.
Becomes(w) ==
    /\ pm' = w.pm
    /\ conversations' = w.conversations
    /\ log' = w.log
    /\ wf' = w.wf
    /\ requests_made' = w.requests_made
    /\ quota_exceeded' = w.quota_exceeded

\* The agent as constructed, after it served ResetAfter messages or none, with
\* the quota file as it was left: unused, one request short of the limit, or
\* exceeded.
InitAgent ==
    /\ IdleExt
    /\ tools = DefaultTools
    /\ sel = SelIdle
    /\ wf = WfIdle
    /\ IdleMemory
    /\ pm = PmIdle
    /\ message_count \in {0, ResetAfter}
    /\ last_reset = 0
    /\ requests_made \in {0, GEMINI_QUOTA_LIMIT - 1, GEMINI_QUOTA_LIMIT}
    /\ quota_exceeded = (requests_made >= GEMINI_QUOTA_LIMIT)
    /\ calls = 0
    /\ resets = 0

\* process_message: "if self.message_count - self.last_reset > 50", with
\* message_count already incremented.
reset_due_at_threshold(count, last) == count - last >= ResetAfter

reset_due(count, last) == count - last > ResetAfter

\* What genai.GenerativeModel(...) does in _reset_state: it returns the new
\* handle or it raises.
ResetOutcomes == {"ok", "raise"}

\* _reset_state(): last_reset is updated unless the constructor raised (the
\* exception is logged and swallowed).
reset_state(count, last, outcome) == IF outcome = "ok" THEN count ELSE last

\* process_message(user_message, user_id) up to its first await, for the
\* messages and user ids given and at most max calls.
ProcessMessageFrom(messages, user_ids, max) ==
    /\ pm.pc = "idle"
    /\ calls < max
    /\ \E user_message \in messages, user_id \in user_ids :
        LET started == [Cur EXCEPT !.pm.pc = "running",
                                   !.pm.user_message = user_message,
                                   !.pm.user_id = user_id]
            cleaned == [started EXCEPT !.pm.cleaned_message = Strip(user_message)]
        IN IF user_message = <<>> \/ Strip(user_message) = <<>>
           THEN Becomes(Returns([started EXCEPT !.pm.branch = "empty"], <<"NO_MESSAGE">>))
           ELSE Becomes(dispatch(Remember(cleaned, "user", Strip(user_message))))
    /\ message_count' = message_count + 1
    /\ IF reset_due(message_count + 1, last_reset)
       THEN /\ resets' = resets + 1
            /\ \E outcome \in ResetOutcomes :
                    last_reset' = reset_state(message_count + 1, last_reset, outcome)
       ELSE UNCHANGED <<last_reset, resets>>
    /\ calls' = calls + 1
    /\ UNCHANGED <<toolVars, max_messages_per_conversation, max_conversations, now, reads, extVars>>

\* process_message(user_message, user_id) up to its first await.
ProcessMessage == ProcessMessageFrom(Messages, UserIds, MaxCalls)

\* detect_workflow_intent returns after _ai_workflow_detection asked the model.
DetectWorkflowIntent ==
    /\ pm.pc = "detect"
    /\ \E d \in DetectOutcomes : Becomes(after_detect(Cur, ai_workflow_detection(d)))
    /\ UNCHANGED <<toolVars, max_messages_per_conversation, max_conversations, now,
                   message_count, last_reset, calls, resets, reads, extVars>>

\* tool_manager.execute_tool returns: in the email branch its text is the
\* result, in the tool branch _handle_tool_query goes on with it.
ExecuteTool ==
    /\ pm.pc = "execute_tool"
    /\ \E out \in ToolOutcomes(pm.cleaned_message) :
        LET executed == [Trace(Cur, "execute_tool", pm.tool) EXCEPT
                            !.pm.adapter_raised = out.raises]
        IN IF pm.branch = "email"
           THEN Becomes(validate_result(executed, execute_tool(out)))
           ELSE Becomes(handle_tool_result(executed, execute_tool(out)))
    /\ UNCHANGED <<toolVars, max_messages_per_conversation, max_conversations, now,
                   message_count, last_reset, calls, resets, reads, extVars>>

\* _fallback_to_websearch: execute_tool(websearch_tool, search_query) returns.
FallbackSearch ==
    /\ pm.pc = "fallback_search"
    /\ \E out \in SearchOutcomes :
        Becomes([Trace(Cur, "execute_tool", "WebSearch") EXCEPT
                    !.pm.pc = "analyze",
                    !.pm.search_results = execute_tool(out)])
    /\ UNCHANGED <<toolVars, max_messages_per_conversation, max_conversations, now,
                   message_count, last_reset, calls, resets, reads, extVars>>

\* _analyze_search_results returns, and process_message validates its result.
AnalyzeSearchResults ==
    /\ pm.pc = "analyze"
    /\ \/ /\ ~can_make_request(Cur)
          /\ Becomes(validate_result(Cur,
                        format_quota_exceeded_response(pm.cleaned_message,
                                                       pm.search_results)))
       \/ /\ can_make_request(Cur)
          /\ \E l \in LLMOutcomes(pm.cleaned_message, pm.cleaned_message) :
                LET r == analyze_search_results(Cur, l)
                IN Becomes(validate_result(r.w, r.result))
    /\ UNCHANGED <<toolVars, max_messages_per_conversation, max_conversations, now,
                   message_count, last_reset, calls, resets, reads, extVars>>

\* _handle_general_query returns to process_message, which validates its
\* result.
HandleGeneralQuery ==
    /\ pm.pc = "general"
    /\ \/ /\ ~can_make_request(Cur)
          /\ Becomes(validate_result(Cur, handle_general_query_no_quota(Cur)))
       \/ /\ can_make_request(Cur)
          /\ \E l \in LLMOutcomes(general_query(pm), pm.cleaned_message) :
                LET r == handle_general_query(Cur, l)
                IN Becomes(validate_result(r.w, r.result))
    /\ UNCHANGED <<toolVars, max_messages_per_conversation, max_conversations, now,
                   message_count, last_reset, calls, resets, reads, extVars>>

\* The result echoed the input: process_message returns what
\* _handle_general_query makes of "Please help me understand: ...".
RetryGeneralQuery ==
    /\ pm.pc = "retry"
    /\ \/ /\ ~can_make_request(Cur)
          /\ Becomes(Returns([Cur EXCEPT !.pm.retries = @ + 1],
                              handle_general_query_no_quota(Cur)))
       \/ /\ can_make_request(Cur)
          /\ \E l \in LLMOutcomes(general_query(pm), pm.cleaned_message) :
                LET r == handle_general_query(Cur, l)
                IN Becomes(Returns([r.w EXCEPT !.pm.retries = @ + 1], r.result))
    /\ UNCHANGED <<toolVars, max_messages_per_conversation, max_conversations, now,
                   message_count, last_reset, calls, resets, reads, extVars>>

\* _handle_workflow_query: execute_workflow returns, the response is
\* remembered and returned formatted, and process_message validates it.
ExecuteWorkflowQuery ==
    /\ pm.pc = "execute_workflow"
    /\ \E o \in [1..Len(pm.workflow_steps) -> StepOutcomes], llm \in SummaryOutcomes :
        LET r == execute_workflow(pm.workflow_steps, o, llm)
            executed == [Trace(Cur, "execute_workflow", "") EXCEPT !.wf = r]
            response == workflow_response(r)
        IN Becomes(validate_result(Remember(executed, "assistant", response),
                                   format_response(response)))
    /\ UNCHANGED <<toolVars, max_messages_per_conversation, max_conversations, now,
                   message_count, last_reset, calls, resets, reads, extVars>>

\* The caller takes what process_message returned.
ReturnAgent ==
    /\ pm.pc = "done"
    /\ pm' = PmIdle
    /\ wf' = WfIdle
    /\ UNCHANGED <<toolVars, conversations, log, max_messages_per_conversation, max_conversations, now,
                   message_count, last_reset, requests_made, quota_exceeded, calls,
                   resets, reads, extVars>>

NextAgent ==
    \/ ProcessMessage
    \/ DetectWorkflowIntent
    \/ ExecuteTool
    \/ FallbackSearch
    \/ AnalyzeSearchResults
    \/ HandleGeneralQuery
    \/ RetryGeneralQuery
    \/ ExecuteWorkflowQuery
    \/ ReturnAgent

SpecAgent == (InitAgent) /\ [][NextAgent]_vars

----------------------------------------------------------------------------
(* Orchestrator: claims *)

\* process_message has returned or raised, and its caller has not yet taken
\* the outcome.
Finished == pm.pc = "done"

\* The normalisation process_message compares under: strip, then lower.
Normalised(text) == Lower(Strip(text))

\* C6: when the handling path returned the input (up to strip and case), the
\* string process_message finally returns is not the input under that
\* normalisation, whatever the retry of the general query produced.
C6_EchoNeverReturned ==
    (Finished /\ pm.echoed) => Normalised(pm.ret) # Normalised(pm.cleaned_message)

\* C7: a call with a user id whose result was accepted appended exactly one
\* user message, the cleaned input, and one assistant message, the returned
\* text, whichever branch handled it.
C7_OneUserOneAssistant ==
    (Finished /\ pm.accepted /\ pm.user_id # NoUser)
        => pm.added = <<[role |-> "user", content |-> pm.cleaned_message],
                        [role |-> "assistant", content |-> pm.ret]>>

\* The positions of a call at which a step of process_message is enabled.
Awaiting ==
    {"detect", "execute_tool", "fallback_search", "analyze", "general", "retry",
     "execute_workflow"}

\* C8: process_message never raises to its caller and what it returns is a
\* text that is not empty; a call that has not returned is at a position from
\* which it goes on.
C8_NeverRaisesNeverEmpty ==
    /\ Finished => (~pm.raised /\ IsStr(pm.ret) /\ pm.ret # <<>>)
    /\ pm.pc \in {"idle", "done"} \cup Awaiting

\* A call ended in the "except Exception" clause of process_message, after a
\* tool returned something that is not a str, and returned the apology.
C8_Witness ==
    /\ Finished
    /\ pm.caught
    /\ pm.ret = <<"ERROR_PROCESSING">>

\* C10: when the adapter invoked in the forced-email branch or in the tool
\* branch raised, the text execute_tool made of the failure is not what
\* process_message returns, and the search fallback was attempted.
C10_FailureTextNeverRaw ==
    (Finished /\ pm.adapter_raised /\ pm.branch \in {"email", "tool"})
        => /\ pm.ret # <<"TOOL_ERROR">>
           /\ pm.tool # "WebSearch"
                => \E i \in 1..Len(pm.trace) : pm.trace[i].op = "fallback_to_websearch"

----------------------------------------------------------------------------
(* Orchestrator: the reset of the model handle *)

\* A fresh agent is sent at most this many messages in a row.
MaxResetCalls == 52

\* The messages sent in a row: an empty one, a conversation-memory query and
\* a query answered by the general path.
ResetMessages == {<<>>, <<"remember">>, <<"my name is">>}

InitReset ==
    /\ IdleExt
    /\ tools = DefaultTools
    /\ sel = SelIdle
    /\ wf = WfIdle
    /\ IdleMemory
    /\ IdleAgent

ProcessMessageInARow == ProcessMessageFrom(ResetMessages, {NoUser}, MaxResetCalls)

NextReset ==
    \/ ProcessMessageInARow
    \/ HandleGeneralQuery
    \/ ReturnAgent

SpecReset == (InitReset) /\ [][NextReset]_vars

\* On a fresh agent: no reset in the first ResetAfter calls, one in the next.
ResetOnceAtFiftyOne ==
    /\ message_count <= ResetAfter => (resets = 0 /\ last_reset = 0)
    /\ message_count = ResetAfter + 1
            => /\ resets = 1
               /\ Finished => (~pm.caught /\ ~pm.raised /\ pm.ret # <<>>)

\* _reset_state is called in a step exactly when that step starts a call that
\* counts more than ResetAfter messages since the last reset.
ResetExactlyWhenDue ==
    /\ resets' \in {resets, resets + 1}
    /\ (resets' # resets)
            <=> (calls' # calls /\ message_count' - last_reset > ResetAfter)

\* C11: _reset_state fires during a process_message call exactly when the
\* calls counted since the last reset exceed 50; on a fresh agent the first
\* 50 calls trigger none, the 51st triggers one, and the 51st message is
\* still answered normally.
C11_ResetAfterFifty == [](ResetOnceAtFiftyOne) /\ [][ResetExactlyWhenDue]_vars

\* The 51st call of a fresh agent has reset the handle and returned an answer.
C11_Witness ==
    /\ message_count = ResetAfter + 1
    /\ resets = 1
    /\ Finished
    /\ pm.branch = "memory"
    /\ ~pm.caught

----------------------------------------------------------------------------
(* Orchestrator: the forced-email branch *)

\* The calls of the trace made with this operation.
CallsOf(op) == {i \in 1..Len(pm.trace) : pm.trace[i].op = op}

\* The call in flight is for a message with an email keyword that is no
\* memory query.
EmailRequestInFlight ==
    /\ pm.pc \notin {"idle", "running"}
    /\ pm.cleaned_message # <<>>
    /\ AnyKeyword(pm.cleaned_message, {"send email"})
    /\ ~is_conversation_memory_query(pm.cleaned_message)
    /\ ~is_memory_query(pm.cleaned_message)

\* C12: for a non-empty message with an email keyword that matches no memory
\* heuristic, neither detect_workflow_intent nor select_tool is called, no
\* adapter but Gmail is executed, and when the call has returned Gmail was
\* executed exactly once.
C12_ForcedEmailBypass ==
    EmailRequestInFlight
        => /\ CallsOf("detect_workflow_intent") = {}
           /\ CallsOf("select_tool") = {}
           /\ \A i \in CallsOf("execute_tool") : pm.trace[i].arg = "Gmail"
           /\ Cardinality(CallsOf("execute_tool")) <= 1
           /\ Finished => Cardinality(CallsOf("execute_tool")) = 1

\* A message that also matches a workflow pattern and the Weather tool went
\* through the forced-email branch and was answered.
C12_Witness ==
    /\ Finished
    /\ pm.cleaned_message = <<"weather", " ", "send email">>
    /\ pm.branch = "email"
    /\ pattern_workflow(pm.cleaned_message) = "weather_email"
    /\ Cardinality(CallsOf("execute_tool")) = 1

----------------------------------------------------------------------------
(* Workflow: the steps the sort could not order *)

\* The ids of the list, in list order, restricted to a set of ids.
InListOrder(steps, ids) ==
    LET kept == SelectSeq(steps, LAMBDA step : step.step_id \in ids)
    IN [k \in 1..Len(kept) |-> kept[k].step_id]

\* C13: when the sort finds no eligible step, the remaining steps end the run
\* order in their original list order, and the executor invokes the adapter
\* of each of them.
C13_StuckStepsStillExecuted ==
    (wf.called /\ wf.warned)
        => /\ wf.appended # <<>>
           /\ wf.appended = InListOrder(wf.steps, Range(wf.appended))
           /\ wf.order = SubSeq(wf.order, 1, Len(wf.order) - Len(wf.appended)) \o wf.appended
           /\ \A id \in Range(wf.appended) : id \in Range(wf.invoked)

----------------------------------------------------------------------------
(* Conversation memory: the number of conversations *)

\* C14: after any sequence of add_user_message, add_assistant_message and
\* get_conversation_context calls, the memory tracks at most
\* max_conversations conversations.
C14_ConversationsBounded == Cardinality(DOMAIN conversations) <= max_conversations

----------------------------------------------------------------------------
(* Conversation memory: the reads *)

\* The conversations read hold at most this many messages.
MaxStored == 3

\* get_conversation_context is called with limits up to this.
MaxLimit == 3

\* The contents of the messages of the conversations read.
StoredContents == {<<"hello">>, <<"weather">>, <<"thanks">>}

\* Conversation.get_recent_messages(limit), for limit >= 0.
get_recent_messages(conv, limit) ==
    IF conv.messages # <<>> THEN LastSlice(conv.messages, limit) ELSE <<>>

\* The line get_context_string renders for a message.
context_part(msg) ==
    <<IF msg.role = "user" THEN "User:" ELSE "Assistant:", " ">> \o msg.content

RECURSIVE JoinLines(_)
\* "\n".join(context_parts).
JoinLines(parts) ==
    IF parts = <<>> THEN <<>>
    ELSE IF Len(parts) = 1 THEN Head(parts)
    ELSE Head(parts) \o <<"\n">> \o JoinLines(Tail(parts))

\* The rendering of a list of messages, one line per message.
render_messages(messages) ==
    JoinLines([k \in 1..Len(messages) |-> context_part(messages[k])])

\* Conversation.get_context_string(limit).
get_context_string(conv, limit) ==
    LET recent_messages == get_recent_messages(conv, limit)
    IN IF recent_messages = <<>> THEN <<>> ELSE render_messages(recent_messages)

\* A read that also runs _cleanup_conversation on the conversation.
conversation_context_trimming(convs, user_id, limit, t) ==
    LET created == get_or_create_conversation(convs, user_id, t)
        trimmed == [created EXCEPT ![user_id] = clear_old_messages(@, MaxAgeHours, t)]
    IN [conversations |-> trimmed,
        value |-> get_context_string(trimmed[user_id], limit)]

\* ConversationMemory.get_conversation_context(user_id, limit): the dict
\* after the call and the string returned.
conversation_context(convs, user_id, limit, t) ==
    LET created == get_or_create_conversation(convs, user_id, t)
    IN [conversations |-> created,
        value |-> get_context_string(created[user_id], limit)]

\* _extract_topics_from_messages: topic_keywords, in dict order, with the
\* keywords that the contents read can hold.
topic_keywords ==
    <<[topic |-> "Weather", keywords |-> {"weather"}],
      [topic |-> "Email", keywords |-> {"email", "mail", "send"}],
      [topic |-> "Spreadsheets", keywords |-> {"update"}],
      [topic |-> "Web Search", keywords |-> {"search"}],
      [topic |-> "Dictionary", keywords |-> {"define"}],
      [topic |-> "Lyrics", keywords |-> {"lyrics"}],
      [topic |-> "Technical", keywords |-> {"error"}],
      [topic |-> "Business", keywords |-> {"meeting"}],
      [topic |-> "General", keywords |-> {"hello", "hi", "thanks"}]>>

\* The keywords found in " ".join(msg.content.lower() for msg in messages).
all_content_keywords(messages) ==
    UNION {Keywords(messages[k].content) : k \in 1..Len(messages)}

\* ConversationMemory._extract_topics_from_messages(messages).
extract_topics_from_messages(messages) ==
    LET found == SelectSeq(topic_keywords,
                           LAMBDA entry : entry.keywords \cap all_content_keywords(messages) # {})
        topics == [k \in 1..Len(found) |-> found[k].topic]
    IN IF topics = <<>> THEN <<"General conversation">> ELSE topics

\* ConversationMemory._analyze_sentiment(messages), with the words that the
\* contents read can hold.
analyze_sentiment(messages) ==
    LET positive_count == Cardinality({"thanks"} \cap all_content_keywords(messages))
        negative_count == Cardinality({"error"} \cap all_content_keywords(messages))
        question_count == Cardinality({"what"} \cap all_content_keywords(messages))
    IN [overall_sentiment |-> IF positive_count > negative_count THEN "positive"
                              ELSE IF negative_count > positive_count THEN "negative"
                              ELSE "neutral",
        engagement_level |-> IF question_count > 3 THEN "high"
                             ELSE IF question_count > 1 THEN "medium"
                             ELSE "low"]

\* ConversationMemory._generate_insights(messages, topics, sentiment); the
\* time span is in hours.
generate_insights(messages, topics, sentiment) ==
    LET time_span == messages[Len(messages)].timestamp - messages[1].timestamp
    IN <<IF Len(messages) > 10 THEN "ACTIVE_CONVERSATION"
         ELSE IF Len(messages) > 5 THEN "MODERATE_ACTIVITY"
         ELSE "BRIEF_SESSION",
         IF Len(topics) > 3 THEN "DIVERSE_TOPICS"
         ELSE IF Len(topics) > 1 THEN "MULTIPLE_TOPICS"
         ELSE "SINGLE_TOPIC",
         IF sentiment.overall_sentiment = "positive" THEN "POSITIVE_INTERACTION"
         ELSE IF sentiment.overall_sentiment = "negative" THEN "NEGATIVE_SENTIMENT"
         ELSE "NEUTRAL_TONE",
         IF sentiment.engagement_level = "high" THEN "HIGH_ENGAGEMENT"
         ELSE IF sentiment.engagement_level = "medium" THEN "MODERATE_ENGAGEMENT"
         ELSE "LOW_ENGAGEMENT">>
       \o (IF Len(messages) > 0
           THEN <<IF time_span > 1 THEN "EXTENDED_SESSION"
                  ELSE IF time_span > 0 THEN "SUSTAINED_CONVERSATION"
                  ELSE "QUICK_INTERACTION">>
           ELSE <<>>)

\* ConversationMemory.analyze_conversation(user_id).
analyze_conversation(convs, user_id) ==
    IF user_id \notin DOMAIN convs THEN NoAnalysis
    ELSE IF convs[user_id].messages = <<>> THEN NoAnalysis
    ELSE LET messages == convs[user_id].messages
             topics == extract_topics_from_messages(messages)
             sentiment == analyze_sentiment(messages)
         IN [has_conversation |-> TRUE,
             total_messages |-> Len(messages),
             user_messages |-> Len(SelectSeq(messages, LAMBDA msg : msg.role = "user")),
             assistant_messages |->
                 Len(SelectSeq(messages, LAMBDA msg : msg.role = "assistant")),
             topics |-> topics,
             overall_sentiment |-> sentiment.overall_sentiment,
             engagement_level |-> sentiment.engagement_level,
             insights |-> generate_insights(messages, topics, sentiment)]

\* The message lists of the conversations read.
StoredMessages ==
    UNION {[1..n -> {Message(role, content, 0) : role \in Roles, content \in StoredContents}]
            : n \in 0..MaxStored}

\* A memory that holds a conversation of u1 and none of u2.
InitContext ==
    /\ IdleExt
    /\ tools = DefaultTools
    /\ sel = SelIdle
    /\ wf = WfIdle
    /\ IdleAgent
    /\ \E messages \in StoredMessages :
        /\ conversations = [u \in {"u1"} |->
                                [messages |-> messages, created_at |-> 0, last_updated |-> 0]]
        /\ log = [NoLog EXCEPT !["u1"] = messages]
    /\ max_messages_per_conversation = AgentMaxMessages
    /\ max_conversations = AgentMaxConversations
    /\ now = 0
    /\ reads = ReadIdle

\* get_conversation_context(user_id, limit) is called and returns.
ReadConversationContext ==
    \E user_id \in Users, limit \in 0..MaxLimit :
        LET r == conversation_context(conversations, user_id, limit, now)
        IN /\ conversations' = r.conversations
           /\ reads' = [ReadIdle EXCEPT !.op = "get_conversation_context",
                                        !.user_id = user_id, !.limit = limit,
                                        !.value = r.value]
           /\ UNCHANGED <<log, max_messages_per_conversation, max_conversations, now,
                          toolVars, wf, agentVars, extVars>>

\* analyze_conversation(user_id) is called and returns.
AnalyzeConversation ==
    \E user_id \in Users :
        /\ reads' = [ReadIdle EXCEPT !.op = "analyze_conversation",
                                     !.user_id = user_id,
                                     !.analysis = analyze_conversation(conversations, user_id)]
        /\ UNCHANGED <<conversations, log, max_messages_per_conversation,
                       max_conversations, now, toolVars, wf, agentVars, extVars>>

\* Time passes between two reads.
TickContext ==
    /\ now + TickHours <= MaxClock
    /\ now' = now + TickHours
    /\ UNCHANGED <<conversations, log, max_messages_per_conversation, max_conversations,
                   toolVars, wf, agentVars, reads, extVars>>

NextContext ==
    \/ ReadConversationContext
    \/ AnalyzeConversation
    \/ TickContext

SpecContext == (InitContext) /\ [][NextContext]_vars

\* C15: analyze_conversation on a conversation whose only message is "hello"
\* returns has_conversation = true, topics that contain "General
\* conversation", and insights that are not empty.
C15_AnalyzeHello ==
    \A u \in DOMAIN conversations :
        (/\ reads.op = "analyze_conversation"
         /\ reads.user_id = u
         /\ Len(conversations[u].messages) = 1
         /\ conversations[u].messages[1].content = <<"hello">>)
            => /\ reads.analysis.has_conversation
               /\ "General conversation" \in Range(reads.analysis.topics)
               /\ reads.analysis.insights # <<>>

\* C16: two get_conversation_context calls in a row for the same user id and
\* limit, with no add or clear between them, return the same string.
C16_ContextIdempotent ==
    [][(/\ reads.op = "get_conversation_context"
        /\ reads'.op = "get_conversation_context"
        /\ reads'.user_id = reads.user_id
        /\ reads'.limit = reads.limit)
            => reads'.value = reads.value]_vars

\* A stored conversation and an unknown user id have each been read, and time
\* has passed since the conversation was written.
C16_Witness ==
    /\ reads.op = "get_conversation_context"
    /\ reads.user_id = "u1"
    /\ reads.value # <<>>
    /\ "u2" \in DOMAIN conversations
    /\ now > MaxAgeHours - 1

\* C17: get_conversation_context(user_id, limit) renders the last
\* min(limit, n) of the n stored messages, oldest first, one line per message,
\* for every limit >= 0.
C17_ContextRendersLastLimit ==
    reads.op = "get_conversation_context"
        => reads.value = render_messages(MostRecent(conversations[reads.user_id].messages,
                                                    reads.limit))

----------------------------------------------------------------------------
(* Orchestrator: the message no tool accepts *)

\* The call in flight reached select_tool with a message that no registered
\* tool's can_handle accepts and that is no memory query, no email request
\* and no workflow.
NoToolAccepts ==
    /\ CallsOf("select_tool") # {}
    /\ ~is_conversation_memory_query(pm.cleaned_message)
    /\ ~is_memory_query(pm.cleaned_message)
    /\ ~is_email_request(pm.cleaned_message)
    /\ \A i \in 1..Len(tools) : ~can_handle(tools[i], pm.cleaned_message)

\* C18: a message that no tool's can_handle accepts (and that is no memory
\* query, email request or workflow) is answered by _handle_general_query,
\* and no tool is executed for it.
C18_NoToolAcceptsGoesGeneral ==
    NoToolAccepts => /\ pm.branch = "general"
                     /\ CallsOf("execute_tool") = {}

----------------------------------------------------------------------------
(* Orchestrator: the detected workflow *)

\* detect_workflow_intent returned a workflow name for the call in flight.
WorkflowDetected ==
    \E i \in CallsOf("detect_workflow_intent") : pm.trace[i].arg \in WorkflowTypes

\* C19: create_workflow returns a step list that is not empty, and does not
\* fail, for each of the workflow names, so that a call for which a workflow
\* was detected has executed the workflow when it returns.
C19_DetectedWorkflowExecuted ==
    (Finished /\ WorkflowDetected)
        => /\ \A i \in CallsOf("detect_workflow_intent") :
                pm.trace[i].arg \in WorkflowTypes
                    => /\ ~create_workflow(pm.trace[i].arg).raises
                       /\ create_workflow(pm.trace[i].arg).steps # <<>>
           /\ CallsOf("execute_workflow") # {}

----------------------------------------------------------------------------
(* Orchestrator: the empty and the echoed result *)

\* C20: when the result of the handling path was empty or echoed the input,
\* process_message made exactly one retry through _handle_general_query
\* before it returned, and the static apology is returned only after that
\* retry.
C20_OneRetryBeforeApology ==
    /\ (Finished /\ (pm.empty \/ pm.echoed)) => pm.retries = 1
    /\ (Finished /\ pm.ret = <<"TROUBLE_REPHRASE">>) => pm.retries = 1

----------------------------------------------------------------------------
(* Workflow: the step that raises *)

\* The step of the list with the id.
StepOf(steps, id) == steps[CHOOSE k \in 1..Len(steps) : steps[k].step_id = id]

\* The keys execute_workflow stores for a step that returned.
KeysOf(step) ==
    {step.step_id} \cup (IF step.output_variable # NoKey THEN {step.output_variable} ELSE {})

\* The positions of a sequence that hold the value.
Occurrences(seq, x) == {k \in 1..Len(seq) : seq[k] = x}

\* C21: when _execute_step raises for a step, execute_workflow appends one
\* error that names the step, stores nothing for the step (the results hold
\* the keys of the steps that returned, and no others), invokes the step once
\* and goes on to visit every later step of the run order.
C21_FailedStepIsolated ==
    wf.called
        => /\ \A id \in Range(wf.raised) :
                /\ Cardinality({k \in 1..Len(wf.errors) : wf.errors[k].step = id}) = 1
                /\ \E k \in 1..Len(wf.errors) :
                      wf.errors[k] = [kind |-> "error", step |-> id]
                /\ Cardinality(Occurrences(wf.invoked, id)) = 1
           /\ wf.results = UNION {KeysOf(StepOf(wf.steps, id)) :
                                    id \in Range(wf.invoked) \ Range(wf.raised)}
           /\ wf.visited = wf.order

\* The first step of the run order raised and the second, which does not
\* depend on it, was executed after it and stored its result and its output
\* variable.
C21_Witness ==
    /\ wf.called
    /\ wf.order = <<1, 2>>
    /\ wf.raised = <<1>>
    /\ wf.invoked = <<1, 2>>
    /\ wf.results = {2, ExtraKey}
    /\ Len(wf.errors) = 1

----------------------------------------------------------------------------
(* Workflow: the counts of the result *)

\* C22: in the templated summary that replaces the failed summary call, the
\* count N of "N/M steps completed" is the steps_completed of the
\* WorkflowResult and is at most M, the number of steps.
C22_FallbackCountIsCompleted ==
    (wf.called /\ wf.final_output.kind = "issues")
        => /\ wf.final_output.n = wf.steps_completed
           /\ wf.final_output.n <= wf.final_output.m
           /\ wf.final_output.m = wf.total_steps

\* C25: in the WorkflowResult every step either completed or contributed one
\* error, steps_completed + len(errors) = total_steps, and success is true
\* exactly when steps_completed = total_steps.
C25_CompletedPlusErrorsIsTotal ==
    wf.called
        => /\ wf.steps_completed + Len(wf.errors) = wf.total_steps
           /\ wf.success <=> (wf.steps_completed = wf.total_steps)

\* Of two steps one completed and the other contributed the one error.
C25_Witness ==
    /\ wf.called
    /\ wf.total_steps = 2
    /\ wf.steps_completed = 1
    /\ Len(wf.errors) = 1
    /\ ~wf.success

\* The steps whose adapter was invoked before position k of the invocations
\* and that returned a result.
ReturnedBefore(k) ==
    {wf.invoked[j] : j \in 1..(k - 1)} \ Range(wf.raised)

\* C26: the adapter of a step is invoked only when every id of its depends_on
\* is the id of a step that was executed earlier in the run and returned a
\* result; a step with a failed, skipped or undefined dependency is not
\* invoked and records a "Missing dependencies" error.
C26_InvokedOnlyAfterDependencies ==
    wf.called
        => /\ \A k \in 1..Len(wf.invoked) :
                StepOf(wf.steps, wf.invoked[k]).depends_on \subseteq ReturnedBefore(k)
           /\ \A i \in 1..Len(wf.steps) :
                wf.steps[i].step_id \notin Range(wf.invoked)
                    => \E e \in 1..Len(wf.errors) :
                          wf.errors[e] = [kind |-> "missing", step |-> wf.steps[i].step_id]

----------------------------------------------------------------------------
(* Workflow: the steps parsed from the language model's response *)

\* The responses explored have at most this many lines.
MaxLines == 3

\* The lines of a response: a line "STEP n: tool - description", a STEP line
\* without " - ", a STEP line without ":", a line that does not start with
\* STEP, and a line of whitespace.
LineKinds == {"STEP", "STEP_NO_DASH", "STEP_NO_COLON", "TEXT", "BLANK"}

\* The step_id of the single step returned when no line was parsed.
FallbackId == 0

RECURSIVE StripLines(_)
\* response.strip().split('\n'): the whitespace at both ends of the response
\* goes, the blank lines there with it; what is left has at least one line.
StripLines(lines) ==
    IF lines = <<>> THEN <<"BLANK">>
    ELSE IF Head(lines) = "BLANK" THEN StripLines(Tail(lines))
    ELSE IF lines[Len(lines)] = "BLANK" THEN StripLines(SubSeq(lines, 1, Len(lines) - 1))
    ELSE lines

\* _parse_ai_workflow_response, the body of the loop for line i (i counts
\* from 1 here, enumerate counts from 0): the step made of the line.
parsed_step(i) ==
    [step_id |-> i, depends_on |-> IF i > 1 THEN {i - 1} ELSE {}]

\* SmartWorkflowManager._parse_ai_workflow_response(response, original_query).
parse_ai_workflow_response(response) ==
    LET lines == StripLines(response)
        F[i \in 0..Len(lines)] ==
            IF i = 0 THEN <<>>
            ELSE IF lines[i] = "STEP" THEN Append(F[i - 1], parsed_step(i))
            ELSE F[i - 1]
        steps == F[Len(lines)]
    IN IF steps # <<>> THEN steps
       ELSE <<[step_id |-> FallbackId, depends_on |-> {}]>>

InitParse ==
    /\ IdleExt
    /\ tools = DefaultTools
    /\ sel = SelIdle
    /\ wf = WfIdle
    /\ IdleMemory
    /\ IdleAgent

\* _parse_ai_workflow_response is called on a response text, which
\* _create_custom_workflow has found not to be empty.
ParseAiWorkflowResponse ==
    /\ ~parsed.called
    /\ \E n \in 1..MaxLines :
        \E response \in [1..n -> LineKinds] :
            parsed' = [called |-> TRUE, lines |-> response,
                       steps |-> parse_ai_workflow_response(response)]
    /\ UNCHANGED <<toolVars, wf, memVars, agentVars, quota, search, notifier, procs>>

\* The steps are handed to the caller.
ReturnParsed ==
    /\ parsed.called
    /\ parsed' = ParsedIdle
    /\ UNCHANGED <<toolVars, wf, memVars, agentVars, quota, search, notifier, procs>>

NextParse == ParseAiWorkflowResponse \/ ReturnParsed

SpecParse == (InitParse) /\ [][NextParse]_vars

\* C23: the steps _parse_ai_workflow_response returns have linear
\* dependencies: the first has none, each later one depends on exactly the id
\* of the step parsed before it, so that every depends_on id is the id of a
\* step of the workflow, whatever blank or non-STEP lines the response holds.
C23_LinearDependencies ==
    parsed.called
        => /\ parsed.steps[1].depends_on = {}
           /\ \A k \in 2..Len(parsed.steps) :
                parsed.steps[k].depends_on = {parsed.steps[k - 1].step_id}
           /\ \A k \in 1..Len(parsed.steps) :
                parsed.steps[k].depends_on \subseteq StepIdsOf(parsed.steps)

----------------------------------------------------------------------------
(* Conversation memory: the read of an unknown user id *)

\* C27: get_conversation_context for a user id that has no conversation
\* returns the empty string and leaves the tracked conversations as they were
\* (so that clear_conversation still returns False and analyze_conversation
\* still finds no conversation for the user id).
C27_ContextReadTracksNothing ==
    [][(/\ reads'.op = "get_conversation_context"
        /\ reads'.user_id \notin DOMAIN conversations)
            => /\ reads'.value = <<>>
               /\ DOMAIN conversations' = DOMAIN conversations]_vars

----------------------------------------------------------------------------
(* Quota monitor: utils/quota_monitor.py *)

\* The UTC date changes at most this many times over a behaviour.
MaxDays == 1

\* reset_quota is called at most this many times over a behaviour.
MaxQuotaResets == 1

\* What generate_content does in a guarded path: it returns a response, or
\* it raises.
GenerateOutcomes == {"returned", "raised"}

\* quota_monitor.usage_data, the two entries the agent reads.
Usage == [requests_made |-> requests_made, quota_exceeded |-> quota_exceeded]

\* _get_default_usage_data().
default_usage_data == [requests_made |-> 0, quota_exceeded |-> FALSE]

\* A process starts with the default usage data.
InitQuota ==
    /\ IdleExt
    /\ tools = DefaultTools
    /\ sel = SelIdle
    /\ wf = WfIdle
    /\ IdleMemory
    /\ IdleAgent

\* _handle_general_query / _analyze_search_results, the quota-guarded call:
\* can_make_request is asked; when it refuses no call is made, otherwise
\* generate_content is called and increment_request follows when it returned.
GuardedQuery ==
    /\ quota.guarded = "none"
    /\ IF ~can_make_request(Usage)
       THEN /\ quota' = [quota EXCEPT !.guarded = "refused"]
            /\ UNCHANGED <<requests_made, quota_exceeded>>
       ELSE \E outcome \in GenerateOutcomes :
            LET after == IF outcome = "returned" THEN increment_request(Usage) ELSE Usage
            IN /\ quota' = [quota EXCEPT !.guarded = "called"]
               /\ requests_made' = after.requests_made
               /\ quota_exceeded' = after.quota_exceeded
    /\ UNCHANGED <<toolVars, wf, memVars, pm, message_count, last_reset, calls, resets,
                   parsed, search, notifier, procs>>

\* The guarded path returns its text.
ReturnGuarded ==
    /\ quota.guarded # "none"
    /\ quota' = [quota EXCEPT !.guarded = "none"]
    /\ UNCHANGED <<toolVars, wf, memVars, agentVars, parsed, search, notifier, procs>>

\* QuotaMonitor.reset_quota(): the default usage data, dated today.
ResetQuota ==
    /\ quota.resets < MaxQuotaResets
    /\ requests_made' = default_usage_data.requests_made
    /\ quota_exceeded' = default_usage_data.quota_exceeded
    /\ quota' = [quota EXCEPT !.resets = @ + 1, !.stored_date = quota.date]
    /\ UNCHANGED <<toolVars, wf, memVars, pm, message_count, last_reset, calls, resets,
                   parsed, search, notifier, procs>>

\* Midnight UTC passes; the running process does not look at the date.
NextDay ==
    /\ quota.date < MaxDays
    /\ quota' = [quota EXCEPT !.date = @ + 1]
    /\ UNCHANGED <<toolVars, wf, memVars, agentVars, parsed, search, notifier, procs>>

NextQuota == GuardedQuery \/ ReturnGuarded \/ ResetQuota \/ NextDay

SpecQuota == (InitQuota) /\ [][NextQuota]_vars

----------------------------------------------------------------------------
(* Web search tool: tools/web_search_tool.py, the cache *)

\* WebSearchTool._cache_size_limit.
cache_size_limit == 30

\* execute: "timestamp + 600 > time.time()", the age in seconds under which a
\* cached result is served.
CacheTtl == 600

\* The clock advances by this many seconds between two steps, up to
\* MaxSearchClock.
SearchTick == 300

MaxSearchClock == 900

\* At most this many execute calls are started over a behaviour.
MaxSearches == 3

\* The execute calls that can be in flight at once.
SearchTasks == {1, 2}

\* The cache keys of the queries explored: the key cached first, and two keys
\* that are not cached at the start.
QueryKeys == {1, cache_size_limit + 1, cache_size_limit + 2}

\* What the upstream search (Smithery, then the fallback API) yields: a
\* result that is formatted and cached, or nothing.
UpstreamOutcomes == {"result", "none"}

\* The keys of the cache, and the position of a key in dict order.
CacheKeys(cache) == {cache[k].key : k \in 1..Len(cache)}

\* self._cache[cache_key].
CacheEntry(cache, key) == cache[CHOOSE k \in 1..Len(cache) : cache[k].key = key]

\* del self._cache[key].
cache_delete(cache, key) == SelectSeq(cache, LAMBDA e : e.key # key)

\* _cache_result: "len(self._cache) > self._cache_size_limit".
cache_full_above(cache) == Len(cache) > cache_size_limit

\* _cache_result: "len(self._cache) >= self._cache_size_limit".
cache_full(cache) == Len(cache) >= cache_size_limit

\* self._cache[cache_key] = {...}: a key the dict holds keeps its place, a new
\* key goes to the end. inserted numbers the keys in the order they entered
\* the dict.
cache_assign(cache, key, t, n) ==
    IF key \in CacheKeys(cache)
    THEN [k \in 1..Len(cache) |->
            IF cache[k].key = key THEN [cache[k] EXCEPT !.timestamp = t] ELSE cache[k]]
    ELSE Append(cache, [key |-> key, timestamp |-> t, inserted |-> n])

\* WebSearchTool._cache_result(cache_key, result) at time t.
cache_result(cache, key, t, n) ==
    LET room == IF cache_full(cache) THEN cache_delete(cache, cache[1].key) ELSE cache
    IN cache_assign(room, key, t, n)

\* A cache filled by k searches for the keys 1..k, made in that order.
FilledCache(k) == [i \in 1..k |-> [key |-> i, timestamp |-> 0, inserted |-> i]]

\* A tool whose cache is empty, one entry short of full, or full.
InitSearch ==
    /\ tools = DefaultTools
    /\ sel = SelIdle
    /\ wf = WfIdle
    /\ IdleMemory
    /\ IdleAgent
    /\ parsed = ParsedIdle
    /\ quota = QuotaIdle
    /\ notifier = NotifierIdle
    /\ procs = ProcsIdle
    /\ \E k \in {0, cache_size_limit - 1, cache_size_limit} :
        search = [SearchIdle EXCEPT !.cache = FilledCache(k), !.inserts = k]

\* WebSearchTool.execute up to its first await: the cache is looked up; a
\* young entry is returned, an old one is deleted and the search goes on.
ExecuteSearch(t) ==
    /\ search.task[t].pc = "idle"
    /\ search.started < MaxSearches
    /\ \E key \in QueryKeys :
        IF /\ key \in CacheKeys(search.cache)
           /\ CacheEntry(search.cache, key).timestamp + CacheTtl > search.time
        THEN search' = [search EXCEPT
                            !.started = @ + 1,
                            !.task[t] = [pc |-> "done", key |-> key, source |-> "cache"]]
        ELSE search' = [search EXCEPT
                            !.started = @ + 1,
                            !.cache = cache_delete(@, key),
                            !.task[t] = [pc |-> "searching", key |-> key, source |-> "none"]]
    /\ UNCHANGED <<toolVars, wf, memVars, agentVars, parsed, quota, notifier, procs>>

\* WebSearchTool.execute after the upstream search returned: a result is
\* cached and returned, otherwise the apology is returned.
FinishSearch(t) ==
    /\ search.task[t].pc = "searching"
    /\ \E outcome \in UpstreamOutcomes :
        IF outcome = "result"
        THEN search' = [search EXCEPT
                            !.cache = cache_result(@, search.task[t].key, search.time,
                                                   search.inserts + 1),
                            !.inserts = @ + 1,
                            !.task[t].pc = "done",
                            !.task[t].source = "upstream"]
        ELSE search' = [search EXCEPT !.task[t].pc = "done",
                                      !.task[t].source = "nothing"]
    /\ UNCHANGED <<toolVars, wf, memVars, agentVars, parsed, quota, notifier, procs>>

\* The text is handed to the caller.
ReturnSearch(t) ==
    /\ search.task[t].pc = "done"
    /\ search' = [search EXCEPT !.task[t] = [pc |-> "idle", key |-> 0, source |-> "none"]]
    /\ UNCHANGED <<toolVars, wf, memVars, agentVars, parsed, quota, notifier, procs>>

\* time.time() advances.
TickSearch ==
    /\ search.time + SearchTick <= MaxSearchClock
    /\ search' = [search EXCEPT !.time = @ + SearchTick]
    /\ UNCHANGED <<toolVars, wf, memVars, agentVars, parsed, quota, notifier, procs>>

NextSearch ==
    \/ \E t \in SearchTasks : ExecuteSearch(t)
    \/ \E t \in SearchTasks : FinishSearch(t)
    \/ \E t \in SearchTasks : ReturnSearch(t)
    \/ TickSearch

SpecSearch == (InitSearch) /\ [][NextSearch]_vars

\* The key that entered the cache first among the keys it holds.
EarliestKey(cache) ==
    CHOOSE key \in CacheKeys(cache) :
        \A other \in CacheKeys(cache) :
            CacheEntry(cache, key).inserted <= CacheEntry(cache, other).inserted

\* Task t looks up the cache in this step.
LooksUp(t) == search.task[t].pc = "idle" /\ search'.task[t].pc # "idle"

\* Task t caches a result in this step.
Caches(t) ==
    /\ search.task[t].pc = "searching"
    /\ search'.task[t].source = "upstream"

\* C29: the cache never holds more than 30 entries; a result cached when the
\* cache is full evicts the entry that entered the cache first, and no other;
\* a lookup that finds an entry younger than 600 seconds returns it and calls
\* no upstream search, and a lookup that finds an older entry removes it and
\* searches again.
C29_CacheBoundedFifoTtl ==
    /\ [](Len(search.cache) <= cache_size_limit)
    /\ [][\A t \in SearchTasks :
            (Caches(t) /\ Len(search.cache) >= cache_size_limit)
                => /\ CacheKeys(search.cache) \ CacheKeys(search'.cache)
                        \subseteq {EarliestKey(search.cache)}
                   /\ EarliestKey(search.cache) # search.task[t].key
                        => EarliestKey(search.cache) \notin CacheKeys(search'.cache)
                   /\ search.task[t].key \in CacheKeys(search'.cache)]_vars
    /\ [][\A t \in SearchTasks :
            (LooksUp(t) /\ search'.task[t].key \in CacheKeys(search.cache))
                => IF search.time - CacheEntry(search.cache, search'.task[t].key).timestamp
                        < CacheTtl
                   THEN /\ search'.task[t].pc = "done"
                        /\ search'.task[t].source = "cache"
                        /\ search'.cache = search.cache
                   ELSE /\ search'.task[t].pc = "searching"
                        /\ search'.task[t].key \notin CacheKeys(search'.cache)]_vars

\* A full cache took a result for a new key: the key cached first is gone,
\* the new key is in, and the cache is still full.
C29_Witness ==
    /\ Len(search.cache) = cache_size_limit
    /\ 1 \notin CacheKeys(search.cache)
    /\ cache_size_limit + 1 \in CacheKeys(search.cache)
    /\ \E t \in SearchTasks : search.task[t].source = "upstream"

----------------------------------------------------------------------------
(* Notification manager: agents/notification_manager.py *)

\* At most this many _notification_loop tasks are created over a behaviour.
MaxLoops == 3

\* The _notification_loop tasks that have not returned.
ActiveLoops(n) == {i \in 1..Len(n.loops) : n.loops[i].pc # "exited"}

InitNotifier ==
    /\ tools = DefaultTools
    /\ sel = SelIdle
    /\ wf = WfIdle
    /\ IdleMemory
    /\ IdleAgent
    /\ parsed = ParsedIdle
    /\ quota = QuotaIdle
    /\ search = SearchIdle
    /\ notifier = NotifierIdle
    /\ procs = ProcsIdle

\* start_notification_service(): nothing when the service is running;
\* otherwise is_running is set and a _notification_loop task is created.
StartNotificationService ==
    /\ Len(notifier.loops) < MaxLoops
    /\ IF notifier.is_running
       THEN notifier' = [notifier EXCEPT !.last = [op |-> "start_ignored", loop |-> 0]]
       ELSE notifier' = [notifier EXCEPT
                            !.is_running = TRUE,
                            !.loops = Append(@, [pc |-> "created", stopped |-> FALSE]),
                            !.last = [op |-> "start", loop |-> 0]]
    /\ UNCHANGED <<toolVars, wf, memVars, agentVars, parsed, quota, search, procs>>

\* stop_notification_service(). stopped: the service was stopped while the
\* loop was alive.
StopNotificationService ==
    /\ notifier' = [notifier EXCEPT
                        !.is_running = FALSE,
                        !.loops = [i \in 1..Len(@) |->
                                     IF @[i].pc # "exited"
                                     THEN [@[i] EXCEPT !.stopped = TRUE] ELSE @[i]],
                        !.last = [op |-> "stop", loop |-> 0]]
    /\ UNCHANGED <<toolVars, wf, memVars, agentVars, parsed, quota, search, procs>>

\* _notification_loop, a task scheduled for the first time or waking from
\* asyncio.sleep(60): "while self.is_running" is tested; the loop body runs
\* up to the next sleep, or the task returns.
NotificationLoop(i) ==
    /\ notifier.loops[i].pc # "exited"
    /\ notifier' = [notifier EXCEPT
                        !.loops[i].pc = IF notifier.is_running THEN "sleeping" ELSE "exited",
                        !.last = [op |-> "loop", loop |-> i]]
    /\ UNCHANGED <<toolVars, wf, memVars, agentVars, parsed, quota, search, procs>>

NextNotifier ==
    \/ StartNotificationService
    \/ StopNotificationService
    \/ \E i \in 1..Len(notifier.loops) : NotificationLoop(i)

SpecNotifier == (InitNotifier) /\ [][NextNotifier]_vars

\* C30: at most one _notification_loop task is active at any time, and a loop
\* that was alive when stop_notification_service was called returns at its
\* next wake-up, even when the service was started again before it.
C30_OneLoopStopsAtWakeUp ==
    /\ [](Cardinality(ActiveLoops(notifier)) <= 1)
    /\ [][\A i \in 1..Len(notifier.loops) :
            (/\ notifier.loops[i].stopped
             /\ notifier.loops[i].pc # "exited"
             /\ notifier'.last = [op |-> "loop", loop |-> i])
                => notifier'.loops[i].pc = "exited"]_vars

----------------------------------------------------------------------------
(* Orchestrator: two process_message calls for one user id *)

\* The calls that run concurrently, each on a thread of the HTTP server.
Procs == {1, 2}

\* The user id both calls are made for.
SharedUser == "u1"

\* The cleaned message of a call and the result it records.
UserText(t) == IF t = 1 THEN <<"hi">> ELSE <<"hello">>

ReplyText(t) == IF t = 1 THEN <<"ok">> ELSE <<"thanks">>

InitConcurrent ==
    /\ tools = DefaultTools
    /\ sel = SelIdle
    /\ wf = WfIdle
    /\ IdleMemory
    /\ IdleAgent
    /\ IdleExt

\* The conversation after get_or_create_conversation and add_message.
appended(role, content) ==
    [get_or_create_conversation(conversations, SharedUser, now) EXCEPT
        ![SharedUser] = add_message(@, role, content, now)]

\* process_message, add_user_message up to the append: the conversation is
\* fetched or created and the cleaned message is appended.
AppendUserMessage(t) ==
    /\ procs[t].pc = "idle"
    /\ conversations' = appended("user", UserText(t))
    /\ log' = [log EXCEPT ![SharedUser] = Append(@, Message("user", UserText(t), now))]
    /\ procs' = [procs EXCEPT ![t].pc = "user_appended"]
    /\ UNCHANGED <<toolVars, wf, max_messages_per_conversation, max_conversations, now,
                   reads, agentVars, parsed, quota, search, notifier>>

\* _cleanup_conversation, the right-hand sides: the list that is to replace
\* conversation.messages is built from the list as it is now.
CleanupRead(t) ==
    /\ procs[t].pc \in {"user_appended", "assistant_appended"}
    /\ procs' = [procs EXCEPT
                    ![t].pc = IF @ = "user_appended" THEN "user_read" ELSE "assistant_read",
                    ![t].local = cleanup_conversation(conversations[SharedUser],
                                                      max_messages_per_conversation,
                                                      now).messages]
    /\ UNCHANGED <<toolVars, wf, memVars, agentVars, parsed, quota, search, notifier>>

\* _cleanup_conversation, the assignment: conversation.messages is replaced by
\* the list built; add_user_message / add_assistant_message returns.
CleanupWrite(t) ==
    /\ procs[t].pc \in {"user_read", "assistant_read"}
    /\ conversations' = [conversations EXCEPT ![SharedUser].messages = procs[t].local]
    /\ procs' = [procs EXCEPT
                    ![t].pc = IF @ = "user_read" THEN "awaiting" ELSE "done",
                    ![t].local = <<>>]
    /\ UNCHANGED <<toolVars, wf, max_messages_per_conversation, max_conversations, now,
                   log, reads, agentVars, parsed, quota, search, notifier>>

\* process_message after its awaits: add_assistant_message up to the append.
AppendAssistantMessage(t) ==
    /\ procs[t].pc = "awaiting"
    /\ conversations' = appended("assistant", ReplyText(t))
    /\ log' = [log EXCEPT ![SharedUser] = Append(@, Message("assistant", ReplyText(t), now))]
    /\ procs' = [procs EXCEPT ![t].pc = "assistant_appended"]
    /\ UNCHANGED <<toolVars, wf, max_messages_per_conversation, max_conversations, now,
                   reads, agentVars, parsed, quota, search, notifier>>

NextConcurrent ==
    \/ \E t \in Procs : AppendUserMessage(t)
    \/ \E t \in Procs : CleanupRead(t)
    \/ \E t \in Procs : CleanupWrite(t)
    \/ \E t \in Procs : AppendAssistantMessage(t)

SpecConcurrent == (InitConcurrent) /\ [][NextConcurrent]_vars

RECURSIVE IsSubsequence(_, _)
\* s is t with some elements left out.
IsSubsequence(s, t) ==
    IF s = <<>> THEN TRUE
    ELSE IF t = <<>> THEN FALSE
    ELSE IF Head(s) = Head(t) THEN IsSubsequence(Tail(s), Tail(t))
    ELSE IsSubsequence(s, Tail(t))

\* The messages stored for the user id of the two calls.
Stored ==
    IF SharedUser \in DOMAIN conversations THEN conversations[SharedUser].messages ELSE <<>>

\* C24: two process_message calls for one user id are not serialized on the
\* conversation: the messages are stored in the order the calls append them,
\* whatever call they belong to, and nothing but a cleanup that writes back a
\* list read earlier removes one; so both user messages can be stored before
\* either reply, and an appended message can be lost.
C24_StoredInAppendOrder ==
    IsSubsequence(Stored, log[SharedUser])

\* A message appended by a call that has returned is no longer stored although
\* the conversation never exceeded its cap and no message is old.
C24_MessageLost ==
    /\ \A t \in Procs : procs[t].pc \in {"awaiting", "done"}
    /\ Len(Stored) < Len(log[SharedUser])

\* Both calls have recorded their user message and await their result: the
\* conversation holds the two user messages and no reply.
C24_Witness ==
    /\ \A t \in Procs : procs[t].pc = "awaiting"
    /\ Len(Stored) = 2
    /\ \A k \in 1..2 : Stored[k].role = "user"
    /\ Stored[1].content # Stored[2].content

====
